---- MODULE Spec2Model ----
(***************************************************************************)
(* xmtp.mx-relay: the relay coordination engine.                           *)
(*                                                                         *)
(* Persistent state is the SQLite store (inbound_email, outbound_request,  *)
(* allowlist_xmtp).  In-memory state is the DedupingQueue, the inbound     *)
(* delivery worker's position and the outbound handler's position.  Node   *)
(* runs one synchronous segment at a time, so every action below is one    *)
(* segment between two awaits; the process can die between any two store   *)
(* statements, which is why the handler's insert / update / send segment   *)
(* is cut into three steps that only CrashRestart can separate.            *)
(***************************************************************************)
EXTENDS Integers, Sequences, FiniteSets, TLC

(* ------------------------------ bounds --------------------------------- *)

\* handler invocations (messages the stream hands to handleXmtpMessage)
MaxInvocations == 2
\* process deaths followed by a restart of main()
MaxCrashes == 1
\* failed delivery attempts of the inbound worker (it retries forever)
MaxSendFailures == 1
\* rows of inbound_email
MaxRows == 2
\* the last instant of the Cloudflare Worker's clock
MaxCfNow == 3

(* ------------------------- values and strings --------------------------- *)

\* SQL NULL / JavaScript null
Null == "NULL"
\* JavaScript undefined (a property that was not supplied)
Undefined == "UNDEFINED"

\* String.prototype.toLowerCase on the identities of the model
ToLowerCase(s) ==
    CASE s = "0xALICE" -> "0xalice"
      [] s = "0xBOT" -> "0xbot"
      [] s = "0xDEAN" -> "0xdean"
      [] s \in {"0xCAROL", "0xCarol"} -> "0xcarol"
      [] s = "Dean@xmtp.mx" -> "dean@xmtp.mx"
      [] OTHER -> s

(* ------------------------------ config ---------------------------------- *)

\* xmtp.inboxId of the bot
botInboxId == "0xbot"
\* getInboxIdByAddress of config.xmtpDeanAddressOrEns
deanInboxId == "0xDEAN"
\* getInboxIdByAddress of each of config.xmtpAllowedSenders
allowlistInboxIds == {"0xALICE"}
\* config.mailgunFrom
mailgunFrom == "relay@xmtp.mx"
\* config.inboundEmailTo
inboundEmailTo == "dean@xmtp.mx"
\* config.mailgunWebhookSigningKey
mailgunWebhookSigningKey == "key"

(* ------------------------- messaging-network messages ------------------- *)

ContentSendA == "{\"type\":\"email.send.v1\",\"to\":[\"a@example.com\"],\"text\":\"hi a\"}"
ContentSendB == "{\"type\":\"email.send.v1\",\"to\":[\"b@example.com\"],\"from\":\"evil@x\"}"
ContentSendBad == "{\"type\":\"email.send.v1\",\"to\":[]}"
ContentSendC == "{\"type\":\"email.send.v1\",\"to\":[\"c@example.com\"],\"replyTo\":\"evil@x.org\"}"
ContentOtherType == "{\"type\":\"ping\"}"
ContentHello == "Hello bot"
ContentProse == "what is this"
\* a decoded content that is not a string (an attachment, a reaction, ...)
ContentAttachment == "<attachment>"

MsgIds == {"m1", "m2", "m3", "m4", "m5", "m6", "m7", "m8", "m9", "m10", "m11", "m12", "m13"}

\* DecodedMessage: the network fixes sender and content of a message id
Message(m) ==
    CASE m = "m1" -> [id |-> m, senderInboxId |-> "0xALICE", content |-> ContentSendA]
      [] m = "m2" -> [id |-> m, senderInboxId |-> "0xdean", content |-> ContentSendA]
      [] m = "m3" -> [id |-> m, senderInboxId |-> "0xmallory", content |-> ContentSendA]
      [] m = "m4" -> [id |-> m, senderInboxId |-> "0xalice", content |-> ContentSendBad]
      [] m = "m5" -> [id |-> m, senderInboxId |-> "0xmallory", content |-> ContentHello]
      [] m = "m6" -> [id |-> m, senderInboxId |-> "0xBOT", content |-> ContentSendA]
      [] m = "m7" -> [id |-> m, senderInboxId |-> "0xalice", content |-> ContentOtherType]
      [] m = "m8" -> [id |-> m, senderInboxId |-> "0xalice", content |-> ContentProse]
      [] m = "m9" -> [id |-> m, senderInboxId |-> "0xALICE", content |-> ContentSendB]
      [] m = "m10" -> [id |-> m, senderInboxId |-> "0xalice", content |-> ContentSendC]
      [] m = "m11" -> [id |-> m, senderInboxId |-> "0xmallory", content |-> ContentSendBad]
      [] m = "m12" -> [id |-> m, senderInboxId |-> "0xalice", content |-> ContentAttachment]
      [] m = "m13" -> [id |-> m, senderInboxId |-> "0xCAROL", content |-> ContentSendA]

\* typeof message.content === 'string'
IsText(content) == content # ContentAttachment

\* isGreetingMessage: not a JSON/fenced payload, and a leading greeting token
isGreetingMessage(content) == content \in {ContentHello}

\* parseJsonishMessage followed by the read of .type: the parsed object, or
\* Null when none of the three strategies yields JSON
parseJsonishMessage(content) ==
    CASE content = ContentSendA ->
           [type |-> "email.send.v1", to |-> <<"a@example.com">>, replyTo |-> Undefined,
            unknown |-> {}]
      [] content = ContentSendB ->
           [type |-> "email.send.v1", to |-> <<"b@example.com">>, replyTo |-> Undefined,
            unknown |-> {"from"}]
      [] content = ContentSendC ->
           [type |-> "email.send.v1", to |-> <<"c@example.com">>, replyTo |-> "evil@x.org",
            unknown |-> {}]
      [] content = ContentSendBad ->
           [type |-> "email.send.v1", to |-> <<>>, replyTo |-> Undefined, unknown |-> {}]
      [] content = ContentOtherType ->
           [type |-> "ping", to |-> <<>>, replyTo |-> Undefined, unknown |-> {}]
      [] OTHER -> [type |-> Null, to |-> <<>>, replyTo |-> Undefined, unknown |-> {"unparsed"}]

\* a plausible slip: every content is taken for JSON
IsJsonAlways(content) == TRUE

\* parseJsonishMessage returned an object (line 233 is not taken)
IsJson(content) ==
    content \in {ContentSendA, ContentSendB, ContentSendC, ContentSendBad, ContentOtherType}

\* emailSendV1Schema.parse succeeds: 1..20 recipients, no unknown field
SchemaValid(obj) ==
    /\ obj.type = "email.send.v1"
    /\ Len(obj.to) >= 1
    /\ Len(obj.to) <= 20
    /\ obj.unknown = {}

\* makeEmailSendResultV1: omitted mailgunId / error become null
makeEmailSendResultV1(ok, mailgunId, error) ==
    [type |-> "email.send.result.v1",
     ok |-> ok,
     mailgunId |-> IF mailgunId = Undefined THEN Null ELSE mailgunId,
     error |-> IF error = Undefined THEN Null ELSE error]

\* buildIntroMessage, with the optional "Unrecognized message type" header
buildIntroMessage(allowlisted, header) ==
    [type |-> "intro", ok |-> allowlisted, mailgunId |-> Null, error |-> header]

\* what sendEmailViaMailgun can answer
MailgunIds == {"<mg-1>", Null}
MailgunErrors == {"Mailgun send failed (status 500)"}
\* the message of the error conversation.send throws
ReplySendError == "xmtp send failed"

(* ------------------------------ state ----------------------------------- *)

VARIABLES
    allowlist,    \* table allowlist_xmtp: set of lower-cased identities
    outbound,     \* table outbound_request: xmtp_msg_id -> row
    handler,      \* position of the (single, awaited) handleXmtpMessage call
    invocations,  \* history: one record per handler invocation
    mailCalls,    \* history: the calls of sendEmailViaMailgun, in order
    statusLog,    \* history: msg id -> the status values written, in order
    crashes,      \* history: number of process restarts
    inbound,      \* table inbound_email: sequence of rows, row i has id i
    queue,        \* the DedupingQueue: [items, set]
    worker,       \* position of the inbound delivery worker loop
    cachedConv,   \* getDeanConversation's cached handle exists
    clock,        \* the wall clock (new Date())
    consent,      \* the inbox ids whose conversation has consent state Allowed
    cf,           \* the scheduled Cloudflare Worker relay and its KV state
    boot,         \* the allowlist configuration of the running process, and
                  \* history: the values every run passed to seedAllowlist
    netLog        \* history of the deliveries to the messaging network

outVars == <<outbound, handler, invocations, mailCalls, statusLog>>
inVars == <<inbound, queue, worker, cachedConv, clock, netLog>>
vars == <<allowlist, boot, crashes, consent, cf, outVars, inVars>>

HandlerIdle == [pc |-> "idle", msg |-> Null, mailgunId |-> Null]
WorkerIdle == [pc |-> "idle", id |-> 0]

\* the ids inbound_email can assign within the bounds
InboundIds == 1..MaxRows

\* per row id: conversation.send calls, accepted sends (in all and in this
\* process run), failed attempts; and the keys a duplicate was received for
EmptyNetLog ==
    [calls |-> [i \in InboundIds |-> 0],
     ok |-> [i \in InboundIds |-> 0],
     okRun |-> [i \in InboundIds |-> 0],
     failed |-> [i \in InboundIds |-> 0],
     duplicates |-> {}]

(* --------------------------- the store (db.ts) --------------------------- *)

\* String.prototype.trim on the identities of the model
Trim(s) == IF s = " 0xalice " THEN "0xalice" ELSE s

\* a plausible slip: seeding replaces the table by the configured values
seedAllowlistReplace(tbl, values) == {ToLowerCase(Trim(v)) : v \in values}

\* RelayDb.seedAllowlist: INSERT OR IGNORE of trim().toLowerCase()
seedAllowlist(tbl, values) == tbl \cup {ToLowerCase(Trim(v)) : v \in values}

\* a plausible slip: the gate is open
isAllowlistedOpen(tbl, senderInboxOrAddress) == TRUE

\* RelayDb.isAllowlisted
isAllowlisted(tbl, senderInboxOrAddress) ==
    ToLowerCase(Trim(senderInboxOrAddress)) \in tbl

\* the value of `existing` when no row is selected
NoRow == [xmtp_msg_id |-> Null, from_inbox |-> Null, to_email |-> <<>>,
          status |-> "absent", mailgun_id |-> Null, error |-> Null]

\* a plausible slip: the lookup never finds the row
getOutboundRequestNever(tbl, xmtpMsgId) == NoRow

\* RelayDb.getOutboundRequestByXmtpMsgId
getOutboundRequestByXmtpMsgId(tbl, xmtpMsgId) ==
    IF xmtpMsgId \in DOMAIN tbl THEN tbl[xmtpMsgId] ELSE NoRow

\* RelayDb.insertOutboundRequest: INSERT OR IGNORE on the UNIQUE xmtp_msg_id
insertOutboundRequest(tbl, input) ==
    IF input.xmtpMsgId \in DOMAIN tbl
    THEN tbl
    ELSE tbl @@ (input.xmtpMsgId :>
                   [xmtp_msg_id |-> input.xmtpMsgId,
                    from_inbox |-> input.fromInbox,
                    to_email |-> input.to,
                    status |-> "received",
                    mailgun_id |-> Null,
                    error |-> Null])

\* JavaScript `x ?? null`
OrNull(x) == IF x \in {Undefined, Null} THEN Null ELSE x
\* SQL COALESCE(a, b)
Coalesce(a, b) == IF a # Null THEN a ELSE b

\* RelayDb.updateOutboundRequestStatus
updateOutboundRequestStatus(tbl, xmtpMsgId, update) ==
    IF xmtpMsgId \notin DOMAIN tbl
    THEN tbl
    ELSE [tbl EXCEPT ![xmtpMsgId] =
            [@ EXCEPT !.status = update.status,
                      !.mailgun_id = Coalesce(OrNull(update.mailgunId), @),
                      !.error = Coalesce(OrNull(update.error), @)]]

(* ------------------------------ history --------------------------------- *)

\* the invocation the handler is running
Cur == Len(invocations)

\* msg: its message; found: the status the idempotency lookup found; replies:
\* the payloads it passed to conversation.send; delivered: how many of these
\* sends resolved; sent: it called sendEmailViaMailgun; ending: how the call
\* ended (running, dropped at lines 201-202, no_conversation, returned, threw,
\* or killed with the process)
NewInvocation(m) ==
    [msg |-> m, found |-> "n/a", replies |-> <<>>, delivered |-> 0, sent |-> FALSE,
     ending |-> "running"]

\* the running invocation ends
LogEnding(how) == [invocations EXCEPT ![Cur].ending = how]

\* conversation.send(payload) is called by the running invocation
LogReply(payload) ==
    [invocations EXCEPT ![Cur].replies = Append(@, payload)]

\* a status value is written to the row of m (no row, no write)
LogStatus(tbl, m, status) ==
    IF m \in DOMAIN tbl THEN [statusLog EXCEPT ![m] = Append(@, status)] ELSE statusLog

(* ---------------------- inbound webhook requests ------------------------ *)

\* The form fields of a webhook request.  "" is a field that is absent.
WebhookIds == {"w1", "w2", "w3", "w4", "w5", "w6", "w7"}

GoodSignature == "hmac(key,1700000000tok)"

Fields(w) ==
    LET base == [timestamp |-> "1700000000", token |-> "tok", signature |-> GoodSignature,
                 sender |-> "bob@x.org", recipient |-> "Dean@xmtp.mx",
                 subject |-> "first", bodyPlain |-> "body",
                 messageIdLc |-> "", MessageId |-> ""]
    IN  CASE w = "w1" -> [base EXCEPT !.messageIdLc = "<e1>"]
          [] w = "w2" -> [base EXCEPT !.messageIdLc = " <e1> ", !.subject = "second",
                                      !.sender = "Bob <bob@x.org>"]
          [] w = "w3" -> [base EXCEPT !.MessageId = "<e1>", !.subject = "third"]
          [] w = "w4" -> base
          [] w = "w5" -> [base EXCEPT !.messageIdLc = "<e2>", !.signature = "forged"]
          [] w = "w6" -> [base EXCEPT !.messageIdLc = "<e3>", !.recipient = "eve@xmtp.mx"]
          [] w = "w7" -> [base EXCEPT !.messageIdLc = "<e4>", !.signature = ""]

\* String.prototype.trim on the header values of the model
TrimHeader(s) == IF s = " <e1> " THEN "<e1>" ELSE s

\* crypto.createHmac('sha256', signingKey).update(timestamp + token).digest('hex')
Hmac(signingKey, data) == "hmac(" \o signingKey \o "," \o data \o ")"

\* a plausible slip: the digest is not compared
verifySignatureAlways(signingKey, timestamp, token, signature) == TRUE

\* verifyMailgunWebhookSignature, queue.ts 151-167
verifyMailgunWebhookSignature(signingKey, timestamp, token, signature) ==
    Hmac(signingKey, timestamp \o token) = signature

\* extractEmailAddress, queue.ts 169-175
extractEmailAddress(input) ==
    IF input = "Bob <bob@x.org>" THEN "bob@x.org" ELSE input

\* `a || b` on strings and null
OrElse(a, b) == IF a \in {"", Null, Undefined} THEN b ELSE a

\* normalizeMailgunInbound, queue.ts 187-208
normalizeMailgunInbound(fields) ==
    [from |-> extractEmailAddress(fields.sender),
     to |-> extractEmailAddress(fields.recipient),
     subject |-> OrElse(fields.subject, Null),
     text |-> IF fields.bodyPlain = "" THEN Null ELSE fields.bodyPlain,
     mailgunMessageId |-> OrElse(TrimHeader(fields.messageIdLc), Null),
     messageId |-> OrElse(TrimHeader(fields.MessageId),
                          OrElse(TrimHeader(fields.messageIdLc), Null))]

\* the instants the wall clock shows during a run
Times == 1..2

\* new Date().toISOString()
IsoString(t) == "2026-01-01T00:00:0" \o ToString(t) \o "Z"

(* ---------------------- the store, inbound_email ------------------------ *)

\* SHA-256 over the concatenated updates, taken to be collision-free: the
\* digest stands for the bytes that were hashed
Sha256Hex(bytes) == bytes

\* `x ?? ''`
OrEmpty(x) == IF x \in {Null, Undefined} THEN "" ELSE x

\* computeInboundDedupeKey, db.ts 277-292
computeInboundDedupeKey(input) ==
    LET base == OrElse(TrimHeader(OrEmpty(input.mailgunMessageId)),
                       TrimHeader(OrEmpty(input.messageId)))
    IN  IF base # ""
        THEN base
        ELSE "sha256:" \o Sha256Hex(input.from \o "\n" \o input.to \o "\n"
                                    \o OrEmpty(input.subject) \o "\n"
                                    \o OrEmpty(input.text) \o "\n" \o input.receivedAt)

DedupeKeys(tbl) == {tbl[i].dedupe_key : i \in 1..Len(tbl)}

\* a plausible slip: a plain INSERT on a table without the UNIQUE constraint
insertInboundEmailAlways(tbl, input) ==
    Append(tbl, [id |-> Len(tbl) + 1,
                 dedupe_key |-> computeInboundDedupeKey(input),
                 mailgun_message_id |-> input.mailgunMessageId,
                 message_id |-> input.messageId,
                 from |-> input.from,
                 to |-> input.to,
                 subject |-> input.subject,
                 text |-> input.text,
                 received_at |-> input.receivedAt,
                 xmtp_sent_at |-> Null])

\* RelayDb.insertInboundEmail: INSERT OR IGNORE on the UNIQUE dedupe_key;
\* the table after the statement
insertInboundEmail(tbl, input) ==
    IF computeInboundDedupeKey(input) \in DedupeKeys(tbl)
    THEN tbl
    ELSE Append(tbl, [id |-> Len(tbl) + 1,
                      dedupe_key |-> computeInboundDedupeKey(input),
                      mailgun_message_id |-> input.mailgunMessageId,
                      message_id |-> input.messageId,
                      from |-> input.from,
                      to |-> input.to,
                      subject |-> input.subject,
                      text |-> input.text,
                      received_at |-> input.receivedAt,
                      xmtp_sent_at |-> Null])

\* its return value: { id } when result.changes = 1, null (0 here) otherwise
insertedId(tbl, input) ==
    IF Len(insertInboundEmail(tbl, input)) = Len(tbl) THEN 0 ELSE Len(tbl) + 1

\* RelayDb.getInboundEmailById: the row exists
hasInboundEmail(tbl, id) == id \in 1..Len(tbl)

\* the ids lo..hi whose row has xmtp_sent_at IS NULL, in id order (computed
\* by halving, so that a large table needs no deep recursion)
RECURSIVE SelectUnsentIn(_, _, _)
SelectUnsentIn(tbl, lo, hi) ==
    IF lo > hi THEN <<>>
    ELSE IF lo = hi
         THEN IF tbl[lo].xmtp_sent_at = Null THEN <<lo>> ELSE <<>>
         ELSE SelectUnsentIn(tbl, lo, (lo + hi) \div 2)
                 \o SelectUnsentIn(tbl, (lo + hi) \div 2 + 1, hi)

SelectUnsent(tbl, i) == SelectUnsentIn(tbl, i, Len(tbl))

\* RelayDb.listUnsentInboundEmails: ids with xmtp_sent_at IS NULL, ORDER BY id
\* ASC LIMIT ?
listUnsentInboundEmails(tbl, limit) ==
    SubSeq(SelectUnsent(tbl, 1), 1,
           IF Len(SelectUnsent(tbl, 1)) < limit THEN Len(SelectUnsent(tbl, 1)) ELSE limit)

\* RelayDb.markInboundEmailSent
markInboundEmailSent(tbl, id, sentAt) ==
    IF id \in 1..Len(tbl) THEN [tbl EXCEPT ![id].xmtp_sent_at = sentAt] ELSE tbl

(* --------------------------- DedupingQueue ------------------------------ *)

EmptyQueue == [items |-> <<>>, set |-> {}]

\* a plausible slip: enqueue without the membership test
enqueueAlways(q, item) ==
    [items |-> Append(q.items, item), set |-> q.set \cup {item}]

\* a plausible slip: a new item is put at the head of the queue
enqueueFront(q, item) ==
    IF item \in q.set
    THEN q
    ELSE [items |-> <<item>> \o q.items, set |-> q.set \cup {item}]

\* DedupingQueue.enqueue
enqueue(q, item) ==
    IF item \in q.set
    THEN q
    ELSE [items |-> Append(q.items, item), set |-> q.set \cup {item}]

\* DedupingQueue.dequeue: the queue after a dequeue that returned a value
dequeue(q) == [items |-> Tail(q.items), set |-> q.set \ {Head(q.items)}]

\* `for (const row of rows) queue.enqueue(row.id)` over the rows of a query
\* (their ids are distinct): the ids not yet pending are appended in order
EnqueueAll(q, ids) ==
    LET fresh(id) == enqueue(q, id) # q
    IN  [items |-> q.items \o SelectSeq(ids, fresh),
         set |-> q.set \cup {ids[i] : i \in DOMAIN ids}]

\* the limit of both refills
RefillLimit == 500

\* a plausible slip: the pass enqueues nothing
refillNothing(q, tbl) == q

\* refillInboundQueue, index.ts 54-56 and 120-122
refillInboundQueue(q, tbl) == EnqueueAll(q, listUnsentInboundEmails(tbl, RefillLimit))

(* ------- the scheduled Cloudflare Worker relay (cf-worker/worker.ts) ----- *)

\* Time is counted in units of 30 s.
INITIAL_LOOKBACK_MS == 30
OVERLAP_MS == 1

\* the messages of the bot's conversations; x0 is one the bot sent itself
CfMsgIds == {"x0", "x1", "x2", "x3"}
\* message.sent
CfSent(x) == CASE x = "x0" -> 1 [] x = "x1" -> 1 [] x = "x2" -> 1 [] x = "x3" -> 2
\* line 227: message.senderAddress is the bot's address
CfOwn(x) == x = "x0"

\* the value under the KV key relay_state_v1 (present = FALSE: no value)
NoKvState == [present |-> FALSE, lastProcessedTimeMs |-> 0, processedIds |-> <<>>]

\* loadState, and line 213: `?? { lastProcessedTimeMs: 0, processedIds: [] }`
loadState(kv) ==
    [lastProcessedTimeMs |-> IF kv.present THEN kv.lastProcessedTimeMs ELSE 0,
     processedIds |-> IF kv.present THEN kv.processedIds ELSE <<>>]

\* saveState: the value of the key after the put
saveState(kv, state) ==
    [present |-> TRUE,
     lastProcessedTimeMs |-> state.lastProcessedTimeMs,
     processedIds |-> state.processedIds]

\* no run of runRelay is in progress
CfIdleRun ==
    [pc |-> "idle",
     state |-> [lastProcessedTimeMs |-> 0, processedIds |-> <<>>],
     now |-> 0,
     allMessages |-> {},
     processedCount |-> 0]

\* kv: the KV namespace; run: the run in progress; time: Date.now();
\* visible: the messages the network lists; relayed: history, the emails
\* Mailgun accepted per message; failed: history, the error replies per
\* message; deaths: history, runs that did not finish
CfInit ==
    [kv |-> NoKvState,
     run |-> CfIdleRun,
     time |-> 1,
     visible |-> {},
     relayed |-> [x \in CfMsgIds |-> 0],
     failed |-> [x \in CfMsgIds |-> 0],
     deaths |-> 0]

(* ------------------ startup and process death (main) -------------------- *)

\* main(), lines 30-39: the allowlist is seeded with the recipient's and the
\* configured senders' inbox ids
SeededAllowlist(tbl) ==
    seedAllowlist(tbl, {ToLowerCase(i) : i \in {deanInboxId} \cup allowlistInboxIds})

\* line 39: the values main() passes to seedAllowlist when the configured
\* senders resolve to the inbox ids of config
SeedValues(config) == {ToLowerCase(i) : i \in {deanInboxId} \cup config}

\* the first run of main() with the configuration allowlistInboxIds
BootInit == [config |-> allowlistInboxIds, seeded |-> SeedValues(allowlistInboxIds)]

Init ==
    /\ allowlist = SeededAllowlist({})
    /\ boot = BootInit
    /\ outbound = <<>>
    /\ handler = HandlerIdle
    /\ invocations = <<>>
    /\ mailCalls = <<>>
    /\ statusLog = [m \in MsgIds |-> <<>>]
    /\ crashes = 0
    /\ inbound = <<>>
    /\ queue = EmptyQueue
    /\ worker = WorkerIdle
    /\ cachedConv = FALSE
    /\ clock = 1
    /\ consent = {}
    /\ cf = CfInit
    /\ netLog = EmptyNetLog

\* The process dies (every in-memory position is lost, the store is kept) and
\* main() runs again, the configured senders resolving to config.
Restart(config) ==
    /\ crashes < MaxCrashes
    /\ crashes' = crashes + 1
    /\ allowlist' = seedAllowlist(allowlist, SeedValues(config))
    /\ boot' = [config |-> config, seeded |-> boot.seeded \cup SeedValues(config)]
    /\ handler' = HandlerIdle
    /\ queue' = refillInboundQueue(EmptyQueue, inbound)
    /\ worker' = WorkerIdle
    /\ cachedConv' = FALSE
    /\ netLog' = [netLog EXCEPT !.okRun = [i \in DOMAIN netLog.okRun |-> 0]]
    /\ invocations' = IF handler.pc \in {"idle", "down", "resubscribe"}
                       THEN invocations
                       ELSE LogEnding("killed")
    /\ UNCHANGED <<outbound, mailCalls, statusLog, consent, cf, inbound, clock>>

\* the process dies and is started again with the configuration it had
CrashRestart == Restart(boot.config)

\* what can fail in lines 30-38: resolving the fixed recipient, or resolving
\* one of the configured allowlist identities
StartupFailures == {"recipient", "allowlist"}

\* main() has thrown (lines 434-437): nothing of lines 53-109 was started
HandlerDown == [pc |-> "down", msg |-> Null, mailgunId |-> Null]
WorkerDown == [pc |-> "down", id |-> 0]
ProcessDown == handler.pc = "down"

\* a plausible slip: the recipient is seeded as soon as it is resolved
StartupSeedRecipientFirst(tbl, failure) ==
    IF failure = "none" THEN SeededAllowlist(tbl)
    ELSE IF failure = "allowlist" THEN seedAllowlist(tbl, {ToLowerCase(deanInboxId)})
    ELSE tbl

\* lines 30-38: the table after main() ran up to the failure, or to its end
StartupSeed(tbl, failure) ==
    IF failure = "none" THEN SeededAllowlist(tbl) ELSE tbl

\* The process dies and main() runs again, but a resolution of lines 30-37
\* throws: main() rejects before seedAllowlist and before any component is
\* started.
StartupAborts(failure) ==
    /\ crashes < MaxCrashes
    /\ crashes' = crashes + 1
    /\ allowlist' = StartupSeed(allowlist, failure)
    /\ handler' = HandlerDown
    /\ queue' = EmptyQueue
    /\ worker' = WorkerDown
    /\ cachedConv' = FALSE
    /\ netLog' = [netLog EXCEPT !.okRun = [i \in DOMAIN netLog.okRun |-> 0]]
    /\ invocations' = IF handler.pc \in {"idle", "down"}
                       THEN invocations
                       ELSE LogEnding("killed")
    /\ UNCHANGED <<outbound, mailCalls, statusLog, consent, cf, boot, inbound, clock>>

\* the first run of main() on an empty store, with or without such a failure
InitStartup ==
    /\ \E failure \in {"none"} \cup StartupFailures :
          /\ allowlist = StartupSeed({}, failure)
          /\ boot = [BootInit EXCEPT !.seeded = IF failure = "none" THEN @ ELSE {}]
          /\ handler = IF failure = "none" THEN HandlerIdle ELSE HandlerDown
          /\ worker = IF failure = "none" THEN WorkerIdle ELSE WorkerDown
    /\ outbound = <<>>
    /\ invocations = <<>>
    /\ mailCalls = <<>>
    /\ statusLog = [m \in MsgIds |-> <<>>]
    /\ crashes = 0
    /\ inbound = <<>>
    /\ queue = EmptyQueue
    /\ cachedConv = FALSE
    /\ clock = 1
    /\ consent = {}
    /\ cf = CfInit
    /\ netLog = EmptyNetLog

(* ------------------- Outbound Message Handler (index.ts) ---------------- *)

\* a plausible slip: the two early returns are missing
IgnoredNever(botId, message) == FALSE

\* lines 199-202: the message is the bot's own (inbox ids compared in lower
\* case) or its content is not a string; handleXmtpMessage returns at once
Ignored(botId, message) ==
    \/ ToLowerCase(message.senderInboxId) = ToLowerCase(botId)
    \/ ~IsText(message.content)

\* startXmtpOutboundLoop hands the next message of the stream to
\* handleXmtpMessage, lines 175-214: self-echo and non-text are dropped, the
\* others wait for getConversationById.
StreamDeliver(m) ==
    /\ handler.pc = "idle"
    /\ Len(invocations) < MaxInvocations
    /\ invocations' =
         Append(invocations,
                IF Ignored(botInboxId, Message(m))
                THEN [NewInvocation(m) EXCEPT !.ending = "dropped"]
                ELSE NewInvocation(m))
    /\ handler' =
         IF Ignored(botInboxId, Message(m))
         THEN HandlerIdle
         ELSE [HandlerIdle EXCEPT !.pc = "conversation", !.msg = m]
    /\ UNCHANGED <<allowlist, boot, outbound, mailCalls, statusLog, crashes, consent, cf, inVars>>

\* lines 214-218: the conversation is not found
ConversationNotFound ==
    /\ handler.pc = "conversation"
    /\ handler' = HandlerIdle
    /\ invocations' = LogEnding("no_conversation")
    /\ UNCHANGED <<allowlist, boot, outbound, mailCalls, statusLog, crashes, consent, cf, inVars>>

\* the handler calls conversation.send(payload) and awaits it
ReplyAndAwait(payload, found) ==
    /\ handler' = [handler EXCEPT !.pc = "reply"]
    /\ invocations' = [invocations EXCEPT ![Cur].replies = Append(@, payload),
                                          ![Cur].found = found]
    /\ UNCHANGED <<allowlist, boot, outbound, mailCalls, statusLog, crashes, consent, cf, inVars>>

\* lines 226-228, 234-236 and 242-249: conversation.updateConsentState(Allowed),
\* then the handler calls conversation.send(help text) and awaits it
HelpAndAwait(payload) ==
    /\ handler' = [handler EXCEPT !.pc = "reply"]
    /\ invocations' = LogReply(payload)
    /\ consent' = consent \cup {ToLowerCase(Message(handler.msg).senderInboxId)}
    /\ UNCHANGED <<allowlist, boot, outbound, mailCalls, statusLog, crashes, cf, inVars>>

\* a plausible slip: a row that never reached a terminal status is retried
RowBlocksSendTerminalOnly(existing) == existing.status \in {"sent", "failed"}

\* a plausible slip: a failed send is retried
RowBlocksSendUnlessFailed(existing) == existing.status \notin {"absent", "failed"}

\* line 271, `if (existing)`: a row of any status ends the invocation
RowBlocksSend(existing) == existing.status # "absent"

\* a plausible slip: every row that is not sent is answered as a failed one
ExistingReplyAsFailed(existing) ==
    IF existing.status = "sent"
    THEN makeEmailSendResultV1(TRUE, existing.mailgun_id, Undefined)
    ELSE makeEmailSendResultV1(FALSE, existing.mailgun_id, existing.error)

\* the reply for a row that exists, lines 272-285
ExistingReply(existing) ==
    IF existing.status = "sent"
    THEN makeEmailSendResultV1(TRUE, existing.mailgun_id, Undefined)
    ELSE IF existing.status = "failed"
    THEN makeEmailSendResultV1(FALSE, existing.mailgun_id, existing.error)
    ELSE makeEmailSendResultV1(FALSE, Undefined, "already_processing")

\* a plausible slip: the schema error is swallowed
SchemaRejectsNothing(parsedJson) == FALSE

\* lines 261-268: emailSendV1Schema.parse throws and the catch block replies
SchemaRejects(parsedJson) == ~SchemaValid(parsedJson)

\* lines 220-299, one synchronous segment: classification, allowlist gate,
\* schema, idempotency lookup, and the INSERT of the row
HandleMessage ==
    /\ handler.pc = "conversation"
    /\ LET m == handler.msg
           senderInboxId == ToLowerCase(Message(m).senderInboxId)
           content == Message(m).content
           allowlisted == isAllowlisted(allowlist, senderInboxId)
           parsedJson == parseJsonishMessage(content)
           existing == getOutboundRequestByXmtpMsgId(outbound, m)
       IN  IF isGreetingMessage(content)
           THEN HelpAndAwait(buildIntroMessage(allowlisted, Null))
           ELSE IF ~IsJson(content)
           THEN HelpAndAwait(buildIntroMessage(allowlisted, Null))
           ELSE IF parsedJson.type # "email.send.v1"
           THEN HelpAndAwait(buildIntroMessage(allowlisted, "Unrecognized message type"))
           ELSE IF ~allowlisted
           THEN ReplyAndAwait(makeEmailSendResultV1(FALSE, Undefined, "not_allowlisted"), "n/a")
           ELSE IF SchemaRejects(parsedJson)
           THEN ReplyAndAwait(makeEmailSendResultV1(FALSE, Undefined, "invalid_payload"), "n/a")
           ELSE IF RowBlocksSend(existing)
           THEN ReplyAndAwait(ExistingReply(existing), existing.status)
           ELSE /\ outbound' = insertOutboundRequest(outbound,
                                 [xmtpMsgId |-> m, fromInbox |-> senderInboxId,
                                  to |-> parsedJson.to])
                /\ statusLog' = IF m \in DOMAIN outbound
                                THEN statusLog
                                ELSE LogStatus(outbound', m, "received")
                /\ invocations' = [invocations EXCEPT ![Cur].found = existing.status]
                /\ handler' = [handler EXCEPT !.pc = "inserted"]
                /\ UNCHANGED <<allowlist, boot, mailCalls, crashes, consent, cf, inVars>>

\* a plausible slip: the send is started without the transition to sending
MarkSendingSkipped ==
    /\ handler.pc = "inserted"
    /\ handler' = [handler EXCEPT !.pc = "marked"]
    /\ UNCHANGED <<allowlist, boot, outbound, statusLog, invocations, mailCalls, crashes, consent, cf, inVars>>

\* line 300: the row goes to sending
MarkSending ==
    /\ handler.pc = "inserted"
    /\ outbound' = updateOutboundRequestStatus(outbound, handler.msg,
                     [status |-> "sending", mailgunId |-> Undefined, error |-> Undefined])
    /\ statusLog' = LogStatus(outbound, handler.msg, "sending")
    /\ handler' = [handler EXCEPT !.pc = "marked"]
    /\ UNCHANGED <<allowlist, boot, invocations, mailCalls, crashes, consent, cf, inVars>>

\* a plausible slip: the sender address the user asked replies to go to is
\* used as the sender of the email
SendFromReplyTo(request) ==
    IF request.replyTo = Undefined THEN mailgunFrom ELSE request.replyTo

\* line 306, `from: mailgun.from`: the from argument of the send call made
\* for the parsed request
SendFrom(request) == mailgunFrom

\* lines 303-314: sendEmailViaMailgun is called with the configured from
CallMailgun ==
    /\ handler.pc = "marked"
    /\ mailCalls' = Append(mailCalls,
                      [msg |-> handler.msg,
                       sender |-> ToLowerCase(Message(handler.msg).senderInboxId),
                       from |-> SendFrom(parseJsonishMessage(Message(handler.msg).content)),
                       to |-> parseJsonishMessage(Message(handler.msg).content).to])
    /\ invocations' = [invocations EXCEPT ![Cur].sent = TRUE]
    /\ handler' = [handler EXCEPT !.pc = "mailgun"]
    /\ UNCHANGED <<allowlist, boot, outbound, statusLog, crashes, consent, cf, inVars>>

\* Mailgun accepts the email; its answer (with the id, or without one) is on
\* its way to the process
MailgunAccepts(id) ==
    /\ handler.pc = "mailgun"
    /\ handler' = [handler EXCEPT !.pc = "accepted", !.mailgunId = id]
    /\ UNCHANGED <<allowlist, boot, outbound, invocations, mailCalls, statusLog, crashes, consent, cf, inVars>>

\* lines 316-321: the answer arrives, the row goes to sent and the success
\* result is sent (still inside the try block)
SendSucceeded ==
    /\ handler.pc = "accepted"
    /\ outbound' = updateOutboundRequestStatus(outbound, handler.msg,
                     [status |-> "sent", mailgunId |-> OrNull(handler.mailgunId),
                      error |-> Null])
    /\ statusLog' = LogStatus(outbound, handler.msg, "sent")
    /\ invocations' = LogReply(makeEmailSendResultV1(TRUE, OrNull(handler.mailgunId), Undefined))
    /\ handler' = [handler EXCEPT !.pc = "reply_in_try"]
    /\ UNCHANGED <<allowlist, boot, mailCalls, crashes, consent, cf, inVars>>

\* lines 323-330, the catch block: the row goes to failed with the error's
\* message and the failure result is sent
CatchBlock(errMsg) ==
    /\ outbound' = updateOutboundRequestStatus(outbound, handler.msg,
                     [status |-> "failed", mailgunId |-> Undefined, error |-> errMsg])
    /\ statusLog' = LogStatus(outbound, handler.msg, "failed")
    /\ invocations' = LogReply(makeEmailSendResultV1(FALSE, Undefined, errMsg))
    /\ handler' = [handler EXCEPT !.pc = "reply"]
    /\ UNCHANGED <<allowlist, boot, mailCalls, crashes, consent, cf, inVars>>

\* sendEmailViaMailgun throws
SendFailed(err) ==
    /\ handler.pc = "mailgun"
    /\ CatchBlock(err)

\* a conversation.send resolves: the handler returns
ReplySent ==
    /\ handler.pc \in {"reply", "reply_in_try"}
    /\ handler' = HandlerIdle
    /\ invocations' = [invocations EXCEPT ![Cur].delivered = @ + 1,
                                          ![Cur].ending = "returned"]
    /\ UNCHANGED <<allowlist, boot, outbound, mailCalls, statusLog, crashes, consent, cf, inVars>>

\* a plausible slip: the loop has no try around the handler call, so the
\* rejection ends the loop
ReplyThrowsStopsLoop ==
    /\ handler.pc = "reply"
    /\ handler' = HandlerDown
    /\ invocations' = LogEnding("threw")
    /\ UNCHANGED <<allowlist, boot, outbound, mailCalls, statusLog, crashes, consent, cf, inVars>>

\* a conversation.send outside the try block throws: the handler throws and
\* startXmtpOutboundLoop logs it (line 180)
ReplyThrows ==
    /\ handler.pc = "reply"
    /\ handler' = HandlerIdle
    /\ invocations' = LogEnding("threw")
    /\ UNCHANGED <<allowlist, boot, outbound, mailCalls, statusLog, crashes, consent, cf, inVars>>

\* the conversation.send of line 321 throws: it is inside the try block, so
\* the catch block of line 323 runs
SuccessReplyThrows ==
    /\ handler.pc = "reply_in_try"
    /\ CatchBlock(ReplySendError)

NextOut ==
    \/ \E m \in MsgIds : StreamDeliver(m)
    \/ ConversationNotFound
    \/ HandleMessage
    \/ MarkSending
    \/ CallMailgun
    \/ \E id \in MailgunIds : MailgunAccepts(id)
    \/ SendSucceeded
    \/ \E err \in MailgunErrors : SendFailed(err)
    \/ ReplySent
    \/ ReplyThrows
    \/ SuccessReplyThrows
    \/ CrashRestart

\* the outbound direction alone (no webhook request arrives)
SpecOut == Init /\ [][NextOut]_vars

(* ------------- the outbound loop with store and stream errors ---------- *)

\* a store call outside the try block throws (the lookup or the INSERT of
\* lines 270-299, the update of line 300): the handler throws and
\* startXmtpOutboundLoop logs it (lines 178-180)
StoreThrows ==
    /\ handler.pc \in {"conversation", "inserted"}
    /\ handler' = HandlerIdle
    /\ invocations' = LogEnding("threw")
    /\ UNCHANGED <<allowlist, boot, outbound, mailCalls, statusLog, crashes, consent, cf, inVars>>

\* lines 169-186: streamAllMessages or the stream's iterator throws while
\* the loop waits for a message; the catch logs it and sleeps 5 s
StreamFails ==
    /\ handler.pc = "idle"
    /\ handler' = [HandlerIdle EXCEPT !.pc = "resubscribe"]
    /\ UNCHANGED <<allowlist, boot, outbound, invocations, mailCalls, statusLog, crashes, consent, cf, inVars>>

\* sleep(5000) is over: `while (true)` calls streamAllMessages again
Resubscribe ==
    /\ handler.pc = "resubscribe"
    /\ handler' = HandlerIdle
    /\ UNCHANGED <<allowlist, boot, outbound, invocations, mailCalls, statusLog, crashes, consent, cf, inVars>>

NextLoop ==
    \/ NextOut
    \/ StoreThrows
    \/ StreamFails
    \/ Resubscribe

SpecLoop == Init /\ [][NextLoop]_vars

(* ------------------------ the webhook (httpServer) ---------------------- *)

\* between the INSERT and the call of sendEmailViaMailgun the handler runs
\* synchronously: no other callback of the process can run
JsBusy == handler.pc \in {"inserted", "marked"}

\* queue.ts 84-100: the signature check
SignatureOk(fields) ==
    /\ fields.timestamp # ""
    /\ fields.token # ""
    /\ fields.signature # ""
    /\ verifyMailgunWebhookSignature(mailgunWebhookSigningKey,
           fields.timestamp, fields.token, fields.signature)

\* queue.ts 115-125: the record handed to insertInboundEmail
WebhookInput(w) ==
    LET normalized == normalizeMailgunInbound(Fields(w))
    IN  [mailgunMessageId |-> normalized.mailgunMessageId,
         messageId |-> normalized.messageId,
         from |-> normalized.from,
         to |-> normalized.to,
         subject |-> normalized.subject,
         text |-> normalized.text,
         receivedAt |-> IsoString(clock)]

\* queue.ts 96-113: the request is answered before the store is touched
\* (403 invalid_signature, 400 missing_fields, 200 ignored), or "" when it
\* goes on to the insert
Rejection(w) ==
    LET normalized == normalizeMailgunInbound(Fields(w))
    IN  IF ~SignatureOk(Fields(w))
        THEN [status |-> 403, body |-> "invalid_signature"]
        ELSE IF normalized.to = "" \/ normalized.from = ""
        THEN [status |-> 400, body |-> "missing_fields"]
        ELSE IF /\ inboundEmailTo # ""
                /\ ToLowerCase(normalized.to) # ToLowerCase(inboundEmailTo)
        THEN [status |-> 200, body |-> "ignored"]
        ELSE [status |-> 0, body |-> ""]

\* the HTTP response of the request, queue.ts 96-135
WebhookResponse(w) ==
    IF Rejection(w).body # ""
    THEN Rejection(w)
    ELSE IF insertedId(inbound, WebhookInput(w)) = 0
    THEN [status |-> 200, body |-> "deduped"]
    ELSE [status |-> 200, body |-> "enqueued"]

\* POST /webhooks/mailgun/inbound, queue.ts 84-135
Webhook(w) ==
    /\ ~ProcessDown
    /\ ~JsBusy
    /\ IF Rejection(w).body # ""
       THEN UNCHANGED <<inbound, queue, netLog>>
       ELSE /\ insertedId(inbound, WebhookInput(w)) = 0 \/ Len(inbound) < MaxRows
            /\ inbound' = insertInboundEmail(inbound, WebhookInput(w))
            /\ IF insertedId(inbound, WebhookInput(w)) = 0
               THEN /\ netLog' = [netLog EXCEPT !.duplicates =
                                    @ \cup {computeInboundDedupeKey(WebhookInput(w))}]
                    /\ UNCHANGED queue
               ELSE /\ queue' = enqueue(queue, insertedId(inbound, WebhookInput(w)))
                    /\ UNCHANGED netLog
    /\ UNCHANGED <<allowlist, boot, crashes, consent, cf, outVars, worker, cachedConv, clock>>

\* time passes
Tick ==
    /\ clock + 1 \in Times
    /\ clock' = clock + 1
    /\ UNCHANGED <<allowlist, boot, crashes, consent, cf, outVars, inbound, queue, worker, cachedConv, netLog>>

(* -------------------- Inbound Delivery Worker (index.ts) ---------------- *)

\* the history counters of netLog stop counting at LogCap, which no run
\* with finitely many failures and restarts reaches
Min(a, b) == IF a < b THEN a ELSE b
LogCap == MaxSendFailures + MaxCrashes + 2

RECURSIVE SumTo(_, _)
SumTo(f, n) == IF n = 0 THEN 0 ELSE f[n] + SumTo(f, n - 1)
TotalFailed == SumTo(netLog.failed, MaxRows)

\* lines 120-122: the refill timer fires
RefillTimer ==
    /\ ~ProcessDown
    /\ ~JsBusy
    /\ queue' = refillInboundQueue(queue, inbound)
    /\ UNCHANGED <<allowlist, boot, crashes, consent, cf, outVars, inbound, worker, cachedConv, clock, netLog>>

\* a plausible slip: every dequeued id is discarded
DiscardRowAlways(tbl, id) == TRUE

\* a plausible slip: the re-fetched row's xmtp_sent_at is not looked at
DiscardRowIfMissing(tbl, id) == ~hasInboundEmail(tbl, id)

\* the test of line 133 on the re-fetched row: the id is discarded
DiscardRow(tbl, id) == ~hasInboundEmail(tbl, id) \/ tbl[id].xmtp_sent_at # Null

\* lines 126-147: dequeue, re-fetch, discard or start the delivery
WorkerDequeue ==
    /\ ~JsBusy
    /\ worker.pc = "idle"
    /\ queue.items # <<>>
    /\ queue' = dequeue(queue)
    /\ worker' = IF DiscardRow(inbound, Head(queue.items))
                 THEN WorkerIdle
                 ELSE [pc |-> "conversation", id |-> Head(queue.items)]
    /\ UNCHANGED <<allowlist, boot, crashes, consent, cf, outVars, inbound, cachedConv, clock, netLog>>

\* lines 147-148: getDeanConversation resolves and conversation.send is called
WorkerSend ==
    /\ ~JsBusy
    /\ worker.pc = "conversation"
    /\ cachedConv' = TRUE
    /\ netLog' = [netLog EXCEPT !.calls[worker.id] = Min(@ + 1, LogCap)]
    /\ worker' = [worker EXCEPT !.pc = "sending"]
    /\ consent' = IF cachedConv THEN consent ELSE consent \cup {ToLowerCase(deanInboxId)}
    /\ UNCHANGED <<allowlist, boot, crashes, cf, outVars, inbound, queue, clock>>

\* a plausible slip: the catch block marks the row instead of re-enqueueing it
WorkerCatchMarksSent ==
    /\ ~JsBusy
    /\ TotalFailed < MaxSendFailures
    /\ inbound' = markInboundEmailSent(inbound, worker.id, IsoString(clock))
    /\ netLog' = [netLog EXCEPT !.failed[worker.id] = @ + 1]
    /\ worker' = [worker EXCEPT !.pc = "backoff"]
    /\ UNCHANGED <<allowlist, boot, crashes, consent, cf, outVars, queue, cachedConv, clock>>

\* lines 151-154, the catch block: re-enqueue and sleep(2000)
WorkerCatch ==
    /\ ~JsBusy
    /\ TotalFailed < MaxSendFailures
    /\ queue' = enqueue(queue, worker.id)
    /\ netLog' = [netLog EXCEPT !.failed[worker.id] = @ + 1]
    /\ worker' = [worker EXCEPT !.pc = "backoff"]
    /\ UNCHANGED <<allowlist, boot, crashes, consent, cf, outVars, inbound, cachedConv, clock>>

\* getDeanConversation throws (newDm fails; nothing is cached)
ConversationFails ==
    /\ worker.pc = "conversation"
    /\ ~cachedConv
    /\ WorkerCatch

\* the messaging network accepts the message; the answer is on its way
NetworkAccepts ==
    /\ worker.pc = "sending"
    /\ netLog' = [netLog EXCEPT !.ok[worker.id] = @ + 1, !.okRun[worker.id] = @ + 1]
    /\ worker' = [worker EXCEPT !.pc = "accepted"]
    /\ UNCHANGED <<allowlist, boot, crashes, consent, cf, outVars, inbound, queue, cachedConv, clock>>

\* lines 148-150: conversation.send resolves, the row is marked
WorkerMarkSent ==
    /\ ~JsBusy
    /\ worker.pc = "accepted"
    /\ inbound' = markInboundEmailSent(inbound, worker.id, IsoString(clock))
    /\ worker' = WorkerIdle
    /\ UNCHANGED <<allowlist, boot, crashes, consent, cf, outVars, queue, cachedConv, clock, netLog>>

\* conversation.send throws
SendThrows ==
    /\ worker.pc = "sending"
    /\ WorkerCatch

\* sleep(2000) is over
WorkerWakes ==
    /\ ~JsBusy
    /\ worker.pc = "backoff"
    /\ worker' = WorkerIdle
    /\ UNCHANGED <<allowlist, boot, crashes, consent, cf, outVars, inbound, queue, cachedConv, clock, netLog>>

NextIn ==
    \/ \E w \in WebhookIds : Webhook(w)
    \/ Tick
    \/ RefillTimer
    \/ WorkerDequeue
    \/ WorkerSend
    \/ ConversationFails
    \/ NetworkAccepts
    \/ WorkerMarkSent
    \/ SendThrows
    \/ WorkerWakes
    \/ CrashRestart

\* the inbound direction alone (the handler stays idle)
SpecIn == Init /\ [][NextIn]_vars

\* The inbound direction with its scheduling: the worker's `while (true)` loop
\* takes its next step whenever it can (its awaits resolve: the send call is
\* answered, sleep(2000) ends), and the 30 s interval timer keeps firing.
\* Sends that throw are bounded by MaxSendFailures, process deaths by
\* MaxCrashes: from some point on sends succeed and the process stays up.
FairnessIn ==
    /\ WF_vars(RefillTimer)
    /\ WF_vars(WorkerDequeue)
    /\ WF_vars(WorkerSend)
    /\ WF_vars(NetworkAccepts)
    /\ WF_vars(WorkerMarkSent)
    /\ WF_vars(WorkerWakes)

SpecInFair == Init /\ [][NextIn]_vars /\ FairnessIn

(* ------------ the worker with an item the network never takes --------- *)

\* the messaging network rejects every send of this item (conversation.send
\* throws each time)
Undeliverable(row) == row.message_id = "<e1>"

\* lines 148-154: conversation.send throws for such an item; the catch block
\* re-enqueues the id and sleeps, as often as the item is tried
PoisonSendThrows ==
    /\ ~JsBusy
    /\ worker.pc = "sending"
    /\ Undeliverable(inbound[worker.id])
    /\ queue' = enqueue(queue, worker.id)
    /\ netLog' = [netLog EXCEPT !.failed[worker.id] = Min(@ + 1, LogCap)]
    /\ worker' = [worker EXCEPT !.pc = "backoff"]
    /\ UNCHANGED <<allowlist, boot, crashes, consent, cf, outVars, inbound, cachedConv, clock>>

\* the network accepts the send of any other item
DeliverableAccepted ==
    /\ worker.pc = "sending"
    /\ ~Undeliverable(inbound[worker.id])
    /\ NetworkAccepts

NextPoison ==
    \/ \E w \in WebhookIds : Webhook(w)
    \/ RefillTimer
    \/ WorkerDequeue
    \/ WorkerSend
    \/ DeliverableAccepted
    \/ WorkerMarkSent
    \/ PoisonSendThrows
    \/ WorkerWakes

\* The worker's loop takes its next step whenever it can, the answers of the
\* network arrive, and the 30 s timer keeps firing; the process stays up.
FairnessPoison ==
    /\ WF_vars(RefillTimer)
    /\ WF_vars(WorkerDequeue)
    /\ WF_vars(WorkerSend)
    /\ WF_vars(DeliverableAccepted)
    /\ WF_vars(WorkerMarkSent)
    /\ WF_vars(PoisonSendThrows)
    /\ WF_vars(WorkerWakes)

SpecPoison == Init /\ [][NextPoison]_vars /\ FairnessPoison

(* --------------- the store's outbound_request interface ---------------- *)

\* RelayDb's two writers of outbound_request called by any caller, with any
\* argument the TypeScript signatures admit: `mailgunId?: string | null` and
\* `error?: string | null` are each omitted, null or a string
DbMsgIds == {"m1", "m10"}

DbUpdates ==
    [status : {"sending", "sent", "failed"},
     mailgunId : {Undefined, Null, "<mg-1>"},
     error : {Undefined, Null, "Mailgun send failed (status 500)"}]

\* db.insertOutboundRequest(...)
DbInsert(m) ==
    /\ outbound' = insertOutboundRequest(outbound,
                      [xmtpMsgId |-> m,
                       fromInbox |-> ToLowerCase(Message(m).senderInboxId),
                       to |-> parseJsonishMessage(Message(m).content).to])
    /\ UNCHANGED <<allowlist, boot, crashes, consent, cf, handler, invocations, mailCalls,
                   statusLog, inVars>>

\* db.updateOutboundRequestStatus(m, update, now)
DbUpdate(m, update) ==
    /\ outbound' = updateOutboundRequestStatus(outbound, m, update)
    /\ UNCHANGED <<allowlist, boot, crashes, consent, cf, handler, invocations, mailCalls,
                   statusLog, inVars>>

NextDb ==
    \/ \E m \in DbMsgIds : DbInsert(m)
    \/ \E m \in DbMsgIds : \E update \in DbUpdates : DbUpdate(m, update)

SpecDb == Init /\ [][NextDb]_vars

(* ---------------- the store's inbound_email interface ------------------ *)

\* InboundEmailInsert records without a transport message id and without a
\* Message-Id: `subject: string | null`, `text: string | null`; a form field
\* can hold any string, line breaks included
KeyInputs ==
    [mailgunMessageId : {Null},
     messageId : {Null},
     from : {"bob@x.org", "eve@x.org"},
     to : {"dean@xmtp.mx"},
     subject : {Null, "", "a", "a\nb"},
     text : {Null, "", "c", "b\nc"},
     receivedAt : {IsoString(t) : t \in Times}]

\* db.insertInboundEmail(input)
KeyInsert(input) ==
    /\ Len(inbound) < MaxRows
    /\ inbound' = insertInboundEmail(inbound, input)
    /\ UNCHANGED <<allowlist, boot, crashes, consent, cf, outVars, queue, worker, cachedConv,
                   clock, netLog>>

NextKey == \E input \in KeyInputs : KeyInsert(input)

SpecKey == Init /\ [][NextKey]_vars

(* ------------- the handler on a store with a revoked sender ------------- *)

\* what an earlier run left of mallory's message m3, when mallory's entry
\* was in allowlist_xmtp: no row, or a row in one of the four statuses
RevokedRowStatuses == {"absent", "received", "sending", "sent", "failed"}

RevokedRow(status) ==
    [xmtp_msg_id |-> "m3",
     from_inbox |-> "0xmallory",
     to_email |-> <<"a@example.com">>,
     status |-> status,
     mailgun_id |-> IF status = "sent" THEN "<mg-1>" ELSE Null,
     error |-> IF status = "failed" THEN "Mailgun send failed (status 500)" ELSE Null]

\* the status values written to a row that has reached status
StatusesUpTo(status) ==
    CASE status = "received" -> <<"received">>
      [] status = "sending" -> <<"received", "sending">>
      [] status \in {"sent", "failed"} -> <<"received", "sending", status>>
      [] OTHER -> <<>>

\* main() on the store of an earlier run; since then mallory's entry has
\* been deleted from allowlist_xmtp (the relay never deletes one itself)
InitRevoked ==
    /\ allowlist = SeededAllowlist({})
    /\ \E status \in RevokedRowStatuses :
          /\ outbound = IF status = "absent" THEN <<>> ELSE ("m3" :> RevokedRow(status))
          /\ statusLog = [m \in MsgIds |-> IF m = "m3" THEN StatusesUpTo(status) ELSE <<>>]
    /\ handler = HandlerIdle
    /\ invocations = <<>>
    /\ mailCalls = <<>>
    /\ crashes = 0
    /\ inbound = <<>>
    /\ queue = EmptyQueue
    /\ worker = WorkerIdle
    /\ cachedConv = FALSE
    /\ clock = 1
    /\ consent = {}
    /\ cf = CfInit
    /\ boot = BootInit
    /\ netLog = EmptyNetLog

SpecRevoked == InitRevoked /\ [][NextOut]_vars

(* ------------- restarts with another allowlist configuration ----------- *)

\* the inbox ids config.xmtpAllowedSenders resolves to, in the configurations
\* the operator deploys
Configs == {{}, {"0xALICE"}, {"0xALICE", "0xCarol"}}

\* the operator stops the process and starts it with another configuration
Redeploy(config) ==
    /\ config # boot.config
    /\ Restart(config)

\* the first run of main() on an empty store, with any of the configurations
InitAllow ==
    /\ \E config \in Configs :
          /\ boot = [config |-> config, seeded |-> SeedValues(config)]
          /\ allowlist = seedAllowlist({}, SeedValues(config))
    /\ outbound = <<>>
    /\ handler = HandlerIdle
    /\ invocations = <<>>
    /\ mailCalls = <<>>
    /\ statusLog = [m \in MsgIds |-> <<>>]
    /\ crashes = 0
    /\ inbound = <<>>
    /\ queue = EmptyQueue
    /\ worker = WorkerIdle
    /\ cachedConv = FALSE
    /\ clock = 1
    /\ consent = {}
    /\ cf = CfInit
    /\ netLog = EmptyNetLog

NextAllow ==
    \/ NextOut
    \/ \E config \in Configs : Redeploy(config)

SpecAllow == InitAllow /\ [][NextAllow]_vars

(* ------------------------ startup that can fail ------------------------- *)

\* main() run and run again, each time with or without a resolution failure,
\* and what the three components do first once they are started: the
\* outbound loop takes a message, the listener a request, the timer and the
\* worker their first steps
NextStartup ==
    \/ CrashRestart
    \/ \E failure \in StartupFailures : StartupAborts(failure)
    \/ \E m \in MsgIds : StreamDeliver(m)
    \/ \E w \in WebhookIds : Webhook(w)
    \/ RefillTimer
    \/ WorkerDequeue
    \/ WorkerSend

SpecStartup == InitStartup /\ [][NextStartup]_vars

(* ------------- runRelay of the scheduled Cloudflare Worker -------------- *)

\* a message reaches the network (not before it was sent)
CfArrive(x) ==
    /\ x \notin cf.visible
    /\ CfSent(x) <= cf.time
    /\ cf' = [cf EXCEPT !.visible = @ \cup {x}]
    /\ UNCHANGED <<allowlist, boot, crashes, consent, outVars, inVars>>

\* time passes
CfTick ==
    /\ cf.time < MaxCfNow
    /\ cf' = [cf EXCEPT !.time = @ + 1]
    /\ UNCHANGED <<allowlist, boot, crashes, consent, outVars, inVars>>

\* lines 215-216: the start of the window the run asks the network for
StartTime(state, now) ==
    (IF state.lastProcessedTimeMs > 0
     THEN state.lastProcessedTimeMs
     ELSE now - INITIAL_LOOKBACK_MS) - OVERLAP_MS

\* lines 210-232, a scheduled event: the state is loaded and the messages
\* of the window that others sent are collected
RunStart ==
    /\ cf.run.pc = "idle"
    /\ cf' = [cf EXCEPT !.run =
                [pc |-> "loop",
                 state |-> loadState(cf.kv),
                 now |-> cf.time,
                 allMessages |-> {x \in cf.visible :
                                    /\ ~CfOwn(x)
                                    /\ CfSent(x) >= StartTime(loadState(cf.kv), cf.time)},
                 processedCount |-> 0]]
    /\ UNCHANGED <<allowlist, boot, crashes, consent, outVars, inVars>>

\* lines 237-238: the message is skipped
CfSkipped(state, x) ==
    \/ CfSent(x) < state.lastProcessedTimeMs
    \/ CfSent(x) = state.lastProcessedTimeMs
          /\ \E k \in 1..Len(state.processedIds) : state.processedIds[k] = x

\* lines 261-266: the in-memory state after message x was handled
CfAdvance(state, x) ==
    IF CfSent(x) > state.lastProcessedTimeMs
    THEN [lastProcessedTimeMs |-> CfSent(x), processedIds |-> <<x>>]
    ELSE [state EXCEPT !.processedIds = Append(@, x)]

\* lines 235-267, one iteration of the loop over the sorted messages: x is
\* skipped, or relayed (Mailgun accepts, ok) or answered with an error (the
\* message does not parse or Mailgun refuses), and then recorded
RunStep(x, ok) ==
    /\ cf.run.pc = "loop"
    /\ x \in cf.run.allMessages
    /\ \A y \in cf.run.allMessages : CfSent(x) <= CfSent(y)
    /\ IF CfSkipped(cf.run.state, x)
       THEN /\ ok
            /\ cf' = [cf EXCEPT !.run.allMessages = @ \ {x}]
       ELSE cf' = [cf EXCEPT !.run.allMessages = @ \ {x},
                             !.run.state = CfAdvance(@, x),
                             !.run.processedCount = IF ok THEN @ + 1 ELSE @,
                             !.relayed[x] = IF ok THEN @ + 1 ELSE @,
                             !.failed[x] = IF ok THEN @ ELSE @ + 1]
    /\ UNCHANGED <<allowlist, boot, crashes, consent, outVars, inVars>>

\* lines 269-273: a first run that relayed nothing moves the mark to now
CfFinalState(run) ==
    IF run.processedCount = 0 /\ run.state.lastProcessedTimeMs = 0
    THEN [lastProcessedTimeMs |-> run.now, processedIds |-> <<>>]
    ELSE run.state

\* lines 269-278: the loop is over, the state is saved, the run ends
RunSave ==
    /\ cf.run.pc = "loop"
    /\ cf.run.allMessages = {}
    /\ cf' = [cf EXCEPT !.kv = saveState(@, CfFinalState(cf.run)),
                         !.run = CfIdleRun]
    /\ UNCHANGED <<allowlist, boot, crashes, consent, outVars, inVars>>

\* the run ends without reaching saveState, or saveState rejects: the
\* invocation is terminated by the platform, or the KV put fails
RunDies ==
    /\ cf.run.pc = "loop"
    /\ cf.deaths < MaxCrashes
    /\ cf' = [cf EXCEPT !.run = CfIdleRun, !.deaths = @ + 1]
    /\ UNCHANGED <<allowlist, boot, crashes, consent, outVars, inVars>>

NextCf ==
    \/ \E x \in CfMsgIds : CfArrive(x)
    \/ CfTick
    \/ RunStart
    \/ \E x \in CfMsgIds : \E ok \in BOOLEAN : RunStep(x, ok)
    \/ RunSave
    \/ RunDies

SpecCf == Init /\ [][NextCf]_vars

Next == NextOut \/ NextIn

Spec == Init /\ [][Next]_vars

(* ======================= properties: outbound =========================== *)

\* the number of sendEmailViaMailgun calls made for message id m
MailCallsFor(m) == Cardinality({k \in 1..Len(mailCalls) : mailCalls[k].msg = m})

Range(seq) == {seq[k] : k \in 1..Len(seq)}

\* the invocations that reached the idempotency lookup for m
Lookups(m) ==
    {i \in 1..Len(invocations) : invocations[i].msg = m /\ invocations[i].found # "n/a"}

\* the result message with the given fields
ResultMessage(ok, mailgunId, error) ==
    [type |-> "email.send.result.v1", ok |-> ok, mailgunId |-> mailgunId, error |-> error]

\* invocation i made no email-send call and sent exactly the reply r
OnlyReplied(i, r) == ~invocations[i].sent /\ invocations[i].replies = <<r>>

\* C1: for every message id, over any number of handler invocations carrying
\* it, the email-send collaborator is called exactly once (at most once in
\* every state; once as soon as an invocation has passed the lookup and, in a
\* run without process death, is past its synchronous insert/update segment);
\* exactly one invocation performs the send and every other one replies with
\* the terminal result recorded on the row, or with already_processing when
\* the row has no terminal status.
C1_ExactlyOneSend ==
    \A m \in MsgIds :
        /\ MailCallsFor(m) <= 1
        /\ Cardinality({i \in Lookups(m) : invocations[i].found = "absent"}) <= 1
        /\ (Lookups(m) # {} /\ crashes = 0)
              => \/ MailCallsFor(m) = 1
                 \/ handler.msg = m /\ handler.pc \in {"inserted", "marked"}
        /\ \A i \in Lookups(m) :
              LET row == getOutboundRequestByXmtpMsgId(outbound, m)
              IN  /\ invocations[i].found = "absent"
                        => (invocations[i].sent <=> (MailCallsFor(m) = 1))
                  /\ invocations[i].found \in {"sent", "failed"}
                        => /\ row.status = invocations[i].found
                           /\ OnlyReplied(i, ResultMessage(row.status = "sent", row.mailgun_id,
                                             IF row.status = "sent" THEN Null ELSE row.error))
                  /\ invocations[i].found \in {"received", "sending"}
                        => /\ row.status = invocations[i].found
                           /\ OnlyReplied(i, ResultMessage(FALSE, Null, "already_processing"))

\* C1 witness: the same message was handled twice; the first invocation sent
\* the email, the second one replayed the recorded success
C1_Witness ==
    /\ MailCallsFor("m1") = 1
    /\ Len(invocations) = 2
    /\ \A i \in 1..2 : invocations[i].msg = "m1"
    /\ invocations[1].sent
    /\ invocations[2].found = "sent"
    /\ OnlyReplied(2, ResultMessage(TRUE, "<mg-1>", Null))
    /\ handler.pc = "idle"

RECURSIVE IsSubsequence(_, _)
IsSubsequence(s, t) ==
    IF s = <<>> THEN TRUE
    ELSE IF t = <<>> THEN FALSE
    ELSE IF Head(s) = Head(t) THEN IsSubsequence(Tail(s), Tail(t))
    ELSE IsSubsequence(s, Tail(t))

\* C2: for every OutboundRequest row, the sequence of status values written
\* to the store is a subsequence of received, sending, sent or of received,
\* sending, failed, whatever the outcome of the email send and of the reply.
C2_StatusMonotone ==
    \A m \in MsgIds :
        \/ IsSubsequence(statusLog[m], <<"received", "sending", "sent">>)
        \/ IsSubsequence(statusLog[m], <<"received", "sending", "failed">>)

C7_AtMostOnceAcrossCrashes ==
    /\ \A m \in MsgIds : \A j, k \in 1..Len(mailCalls) :
          (mailCalls[j].msg = m /\ mailCalls[k].msg = m) => j = k
    /\ \A i \in 1..Len(invocations) :
          invocations[i].found \in {"received", "sending"}
              => /\ ~invocations[i].sent
                 /\ \A r \in Range(invocations[i].replies) :
                       r.ok = FALSE /\ r.error = "already_processing"

\* C7 witness: the process died while the email send was in flight, and the
\* replay after the restart was answered already_processing
C7_Witness ==
    /\ crashes = 1
    /\ \E i \in 1..Len(invocations) :
          /\ invocations[i].found = "sending"
          /\ invocations[i].replies # <<>>
          /\ MailCallsFor(invocations[i].msg) = 1

\* C8: whenever the email-send collaborator is invoked for a message id, the
\* store already holds the row of that id with status sending.
C8_SendingBeforeSend ==
    [][Len(mailCalls') > Len(mailCalls)
          => getOutboundRequestByXmtpMsgId(outbound,
                 mailCalls'[Len(mailCalls')].msg).status = "sending"]_vars

\* C8 witness: the email send is in flight and the row is in sending
C8_Witness ==
    /\ handler.pc = "mailgun"
    /\ mailCalls # <<>>
    /\ getOutboundRequestByXmtpMsgId(outbound, handler.msg).status = "sending"

\* C9: once a row has had status sent with transport id r, every later
\* invocation with the same message id finds it sent, makes no email-send
\* call and replies with a success result carrying r.
C9_SentReplay ==
    \A m \in MsgIds : \A i \in Lookups(m) :
        ("sent" \in Range(statusLog[m]) /\ invocations[i].found # "absent")
            => /\ invocations[i].found = "sent"
               /\ OnlyReplied(i, ResultMessage(TRUE,
                                   getOutboundRequestByXmtpMsgId(outbound, m).mailgun_id, Null))

\* C10 (state part): an invocation that finds the row failed makes no
\* email-send call and replies with one failure result carrying the error
\* recorded on the row; once a row has failed, no invocation finds anything
\* else.
C10_FailedReplayState ==
    \A m \in MsgIds : \A i \in Lookups(m) :
        LET row == getOutboundRequestByXmtpMsgId(outbound, m)
        IN  /\ ("failed" \in Range(statusLog[m]) /\ invocations[i].found # "absent")
                  => invocations[i].found = "failed"
            /\ invocations[i].found = "failed"
                  => /\ row.status = "failed"
                     /\ row.error # Null
                     /\ OnlyReplied(i, ResultMessage(FALSE, row.mailgun_id, row.error))

\* C10 (step part): a failed row never changes again and no email-send call
\* is made for its message id
C10_FailedFrozen ==
    \A m \in DOMAIN outbound :
        outbound[m].status = "failed"
            => /\ outbound'[m] = outbound[m]
               /\ MailCallsFor(m)' = MailCallsFor(m)

\* C10: once an OutboundRequest has status failed, every later invocation
\* with the same message id makes zero email-send calls, leaves the row
\* unchanged and replies with a failure result carrying the recorded error.
C10_FailedReplay == [](C10_FailedReplayState) /\ [][C10_FailedFrozen]_vars

\* C10 witness: a failed send was replayed and answered with the recorded
\* failure
C10_Witness ==
    \E i \in 1..Len(invocations) :
        /\ invocations[i].found = "failed"
        /\ invocations[i].replies # <<>>
        /\ "sent" \notin Range(statusLog[invocations[i].msg])
        /\ handler.pc = "idle"

(* ======================== properties: inbound =========================== *)

\* the rows stored under dedupe key k
RowsWithKey(k) == {i \in 1..Len(inbound) : inbound[i].dedupe_key = k}

\* the worker has called conversation.send for row id and awaits it
SendInFlight(id) == worker.id = id /\ worker.pc \in {"sending", "accepted"}

\* C4: across process deaths and restarts at any point of the inbound
\* pipeline, no InboundItem is accepted by the messaging network more than
\* once, and no send is in flight for an item that is marked delivered.
C4_NoDoubleDelivery ==
    \A id \in InboundIds :
        /\ netLog.ok[id] <= 1
        /\ (hasInboundEmail(inbound, id) /\ inbound[id].xmtp_sent_at # Null)
              => ~SendInFlight(id)

\* C5 as stated: when the same transport message id was received twice or
\* more, then (in a run of one process, whatever the interleaving of webhook,
\* worker and refill timer) the store holds exactly one row for it and the
\* messaging-network collaborator has received at most one send call for it.
C5_OneRowOneAttempt ==
    crashes = 0 =>
        \A k \in netLog.duplicates :
            /\ Cardinality(RowsWithKey(k)) = 1
            /\ \A id \in RowsWithKey(k) : netLog.calls[id] <= 1

\* C5 as amended: when the same transport message id was received twice or
\* more, the store holds exactly one row for it; within one process run the
\* messaging network accepts at most one send of it, every send call beyond
\* the first follows a failed attempt or a restart, and no send is in flight
\* once the row is marked delivered.
C5_OneRowOneDeliveryPerRun ==
    \A k \in netLog.duplicates :
        /\ Cardinality(RowsWithKey(k)) = 1
        /\ \A id \in RowsWithKey(k) :
              /\ netLog.okRun[id] <= 1
              /\ netLog.calls[id] <= 1 + netLog.failed[id] + crashes
              /\ inbound[id].xmtp_sent_at # Null => ~SendInFlight(id)

\* C5 witness: a transport id was received twice, its one row was delivered,
\* and the delivery took a second send call after a failed first one
C5_Witness ==
    \E k \in netLog.duplicates : \E id \in RowsWithKey(k) :
        /\ inbound[id].mailgun_message_id = k
        /\ inbound[id].xmtp_sent_at # Null
        /\ netLog.calls[id] = 2
        /\ netLog.failed[id] = 1
        /\ crashes = 0

\* what C6 says of one webhook step that reaches insertInboundEmail
C6_Step(w) ==
    LET key == computeInboundDedupeKey(WebhookInput(w))
        id == insertedId(inbound, WebhookInput(w))
    IN  IF key \in DedupeKeys(inbound)
        THEN /\ id = 0
             /\ WebhookResponse(w).body = "deduped"
             /\ inbound' = inbound
             /\ queue' = queue
        ELSE /\ id = Len(inbound) + 1
             /\ WebhookResponse(w).body = "enqueued"
             /\ inbound' = Append(inbound, inbound'[id])
             /\ inbound'[id].dedupe_key = key
             /\ inbound'[id].subject = WebhookInput(w).subject
             /\ inbound'[id].xmtp_sent_at = Null
             /\ id \in queue'.set

\* C6: insertInboundItem returns a new id only for the first record with a
\* given dedupe key (the transport message id, else the Message-Id, else the
\* content hash); a later insert with the same key returns duplicate, leaves
\* the store unchanged and the webhook path enqueues nothing.  (Only a step
\* that changes the store, the queue or the duplicate log and leaves the
\* worker and the restart count alone can be such a webhook step.)
C6_InsertOnce ==
    [][(<<inbound, queue, netLog>>' # <<inbound, queue, netLog>>
           /\ UNCHANGED <<worker, crashes>>)
          => \A w \in WebhookIds :
                (Webhook(w) /\ Rejection(w).body = "") => C6_Step(w)]_vars

\* C6 witness: a duplicate was absorbed for a transport id and for a hashed
\* key; the row of the transport id still has the first record's subject
C6_Witness ==
    /\ Len(inbound) = 2
    /\ "<e1>" \in netLog.duplicates
    /\ \E i \in 1..2 : inbound[i].dedupe_key = "<e1>" /\ inbound[i].subject = "first"
    /\ \E i \in 1..2 : /\ inbound[i].mailgun_message_id = Null
                       /\ inbound[i].message_id = Null
                       /\ inbound[i].dedupe_key \in netLog.duplicates

(* ================= properties: outbound, replies and frames ============== *)

\* the message is typed email.send.v1 and is not the bot's own
IsSendV1(m) ==
    /\ parseJsonishMessage(Message(m).content).type = "email.send.v1"
    /\ ToLowerCase(Message(m).senderInboxId) # ToLowerCase(botInboxId)

\* the lower-cased sender of m is in the allowlist store
SenderListed(m) == ToLowerCase(Message(m).senderInboxId) \in allowlist

\* the handler is running an invocation that found its row unfinished
FoundUnfinished(inv, h) ==
    /\ h.pc # "idle"
    /\ inv # <<>>
    /\ inv[Len(inv)].found \in {"received", "sending"}

\* C11 (state part): an invocation that found the row in received or sending
\* made no email-send call and passed exactly the already_processing failure
\* result to conversation.send
C11_UnfinishedState ==
    \A i \in 1..Len(invocations) :
        invocations[i].found \in {"received", "sending"}
            => /\ OnlyReplied(i, ResultMessage(FALSE, Null, "already_processing"))
               /\ getOutboundRequestByXmtpMsgId(outbound, invocations[i].msg).status
                     = invocations[i].found

\* C11 (step part): no step of such an invocation, the lookup included,
\* changes the store or calls the email-send collaborator
C11_UnfinishedStep ==
    (FoundUnfinished(invocations, handler) \/ FoundUnfinished(invocations', handler'))
        => UNCHANGED <<outbound, mailCalls, statusLog>>

\* C11: a handler invocation that finds the OutboundRequest of its message id
\* in received or sending replies with an already_processing failure result
\* and takes no further action: no email-send call, no change of the row.
C11_AlreadyProcessing == [](C11_UnfinishedState) /\ [][C11_UnfinishedStep]_vars

\* C11 witness: the process died right after the INSERT; the replay found the
\* row in received, answered and returned
C11_Witness ==
    \E i \in 1..Len(invocations) :
        /\ invocations[i].found = "received"
        /\ invocations[i].ending = "returned"
        /\ invocations[i].delivered = 1

\* C12: every handler invocation for an email.send.v1 message makes at most
\* one conversation.send call, and exactly one (an email.send.result.v1) when
\* it has ended by returning or throwing after the classification: never zero
\* and never two.
C12_ExactlyOneReply ==
    \A i \in 1..Len(invocations) :
        IsSendV1(invocations[i].msg)
            => /\ Len(invocations[i].replies) <= 1
               /\ invocations[i].ending \in {"returned", "threw"}
                     => /\ Len(invocations[i].replies) = 1
                        /\ invocations[i].replies[1].type = "email.send.result.v1"

\* C13 (state part): an email.send.v1 message of a sender absent from the
\* allowlist has no row, caused no email-send call, never reached the lookup,
\* and an invocation for it that ended sent exactly the not_allowlisted
\* failure result
C13_DeniedState ==
    \A i \in 1..Len(invocations) :
        (IsSendV1(invocations[i].msg) /\ ~SenderListed(invocations[i].msg))
            => /\ invocations[i].msg \notin DOMAIN outbound
               /\ statusLog[invocations[i].msg] = <<>>
               /\ ~invocations[i].sent
               /\ invocations[i].found = "n/a"
               /\ invocations[i].replies \in
                     {<<>>, <<ResultMessage(FALSE, Null, "not_allowlisted")>>}
               /\ invocations[i].ending \in {"returned", "threw"}
                     => invocations[i].replies # <<>>

\* C13 (step part): while the handler runs such an invocation no store table
\* changes
C13_DeniedStep ==
    (handler.pc # "idle" /\ IsSendV1(handler.msg) /\ ~SenderListed(handler.msg)
        /\ crashes' = crashes)
        => UNCHANGED <<outbound, allowlist, inbound, mailCalls, statusLog>>

PayloadInvalid(m) == ~SchemaValid(parseJsonishMessage(Message(m).content))

\* C14: an email.send.v1 message of an allowlisted sender whose payload
\* violates the outbound schema is rejected as a whole, in every invocation
\* that carries it: the only reply is the invalid_payload failure result, no
\* OutboundRequest row exists for it, no email-send call is made for it, and
\* no invocation reaches the lookup or the send (it is never retried).
C14_InvalidPayload ==
    \A i \in 1..Len(invocations) :
        (IsSendV1(invocations[i].msg) /\ SenderListed(invocations[i].msg)
            /\ PayloadInvalid(invocations[i].msg))
            => /\ invocations[i].msg \notin DOMAIN outbound
               /\ statusLog[invocations[i].msg] = <<>>
               /\ MailCallsFor(invocations[i].msg) = 0
               /\ ~invocations[i].sent
               /\ invocations[i].found = "n/a"
               /\ invocations[i].replies \in
                     {<<>>, <<ResultMessage(FALSE, Null, "invalid_payload")>>}
               /\ invocations[i].ending \in {"returned", "threw"}
                     => invocations[i].replies # <<>>

\* C14 witness: a payload with an empty recipient list and one with an
\* unknown field were both answered invalid_payload
C14_Witness ==
    /\ Len(invocations) = 2
    /\ invocations[1].msg = "m4"
    /\ invocations[2].msg = "m9"
    /\ \A i \in 1..2 :
          /\ invocations[i].ending = "returned"
          /\ invocations[i].replies = <<ResultMessage(FALSE, Null, "invalid_payload")>>
    /\ outbound = <<>>
    /\ mailCalls = <<>>

\* the message is answered with the help text: a greeting, not JSON, or JSON
\* of another type (and not the bot's own)
IsHelpClass(m) ==
    /\ IsText(Message(m).content)
    /\ parseJsonishMessage(Message(m).content).type # "email.send.v1"
    /\ ToLowerCase(Message(m).senderInboxId) # ToLowerCase(botInboxId)

\* the help text m is answered with: the intro for the sender's allowlist
\* status, under the "Unrecognized message type" header for typed JSON
HelpText(m) ==
    [type |-> "intro", ok |-> SenderListed(m), mailgunId |-> Null,
     error |-> IF parseJsonishMessage(Message(m).content).type = Null
               THEN Null ELSE "Unrecognized message type"]

\* the handler is running an invocation for a message of the help class
HelpRunning(h) == h.pc # "idle" /\ IsHelpClass(h.msg)

\* C15 (step part): the invocation leaves every store table and the
\* email-send calls alone; the one thing it does on the messaging client
\* besides replying is to set the sender's conversation to consent state
\* Allowed
C15_HelpStep ==
    (HelpRunning(handler) /\ crashes' = crashes)
        => /\ UNCHANGED <<outbound, allowlist, inbound, mailCalls, statusLog>>
           /\ consent' \in {consent,
                              consent \cup {ToLowerCase(Message(handler.msg).senderInboxId)}}
           /\ handler.pc = "conversation" /\ handler'.pc = "reply"
                 => ToLowerCase(Message(handler.msg).senderInboxId) \in consent'

\* C15 (state part): a message classified as a greeting, as
\* non-JSON, or as JSON with a type other than email.send.v1 is answered with
\* the help/intro text: no OutboundRequest row, no email-send call, no
\* lookup, for allowlisted and non-allowlisted senders alike.
C15_HelpState ==
    \A i \in 1..Len(invocations) :
        IsHelpClass(invocations[i].msg)
            => /\ invocations[i].msg \notin DOMAIN outbound
               /\ statusLog[invocations[i].msg] = <<>>
               /\ MailCallsFor(invocations[i].msg) = 0
               /\ ~invocations[i].sent
               /\ invocations[i].found = "n/a"
               /\ invocations[i].replies \in {<<>>, <<HelpText(invocations[i].msg)>>}
               /\ invocations[i].ending \in {"returned", "threw"}
                     => invocations[i].replies # <<>>

BacklogSizes == {2, RefillLimit, RefillLimit + 1, RefillLimit + 2}

\* which of n rows earlier runs have delivered
DeliveredSets(n) == {{}, {1}, {n}, {1, 2}}

\* row i as an earlier run stored it
BacklogRow(i, delivered) ==
    [id |-> i,
     dedupe_key |-> "<b" \o ToString(i) \o ">",
     mailgun_message_id |-> "<b" \o ToString(i) \o ">",
     message_id |-> "<b" \o ToString(i) \o ">",
     from |-> "bob@x.org",
     to |-> "dean@xmtp.mx",
     subject |-> "first",
     text |-> "body",
     received_at |-> IsoString(1),
     xmtp_sent_at |-> IF delivered THEN IsoString(1) ELSE Null]

\* main() on a store that holds n rows, those of `sent` delivered: the
\* startup refill of lines 53-57 has run, nothing else has
InitBacklog ==
    /\ allowlist = SeededAllowlist({})
    /\ outbound = <<>>
    /\ handler = HandlerIdle
    /\ invocations = <<>>
    /\ mailCalls = <<>>
    /\ statusLog = [m \in MsgIds |-> <<>>]
    /\ crashes = 0
    /\ \E n \in BacklogSizes : \E sent \in DeliveredSets(n) :
          /\ inbound = [i \in 1..n |-> BacklogRow(i, i \in sent)]
          /\ netLog = [calls |-> [i \in 1..n |-> IF i \in sent THEN 1 ELSE 0],
                       ok |-> [i \in 1..n |-> IF i \in sent THEN 1 ELSE 0],
                       okRun |-> [i \in 1..n |-> 0],
                       failed |-> [i \in 1..n |-> 0],
                       duplicates |-> {}]
    /\ queue = refillInboundQueue(EmptyQueue, inbound)
    /\ worker = WorkerIdle
    /\ cachedConv = FALSE
    /\ clock = 1
    /\ consent = {}
    /\ cf = CfInit
    /\ boot = BootInit

\* the refill timer, the worker up to its send call (the network does not
\* answer), and process death
NextBacklog ==
    \/ RefillTimer
    \/ WorkerDequeue
    \/ WorkerSend
    \/ Tick
    \/ CrashRestart

SpecBacklog == InitBacklog /\ [][NextBacklog]_vars

(* ================== properties: inbound, rehydration ===================== *)

\* the ids of the rows that are not marked delivered, in id order
UnsentIds(tbl) == SelectUnsent(tbl, 1)

\* every undelivered row is pending in the queue
AllUnsentQueued(tbl, q) ==
    \A id \in 1..Len(tbl) : tbl[id].xmtp_sent_at = Null => id \in q.set

\* the RefillLimit undelivered rows of lowest id are pending in the queue
FirstUnsentQueued(tbl, q) ==
    LET unsent == UnsentIds(tbl)
    IN  \A k \in 1..Len(unsent) : k <= RefillLimit => unsent[k] \in q.set

\* C16 as stated: after any rehydration pass (the timer's, or the one of a
\* startup) every stored row whose deliveredAt is null has its id in the
\* dedup queue.
C16_AllPendingAfterPass ==
    [][(RefillTimer \/ CrashRestart) => AllUnsentQueued(inbound', queue')]_vars

\* C16 as amended: after any rehydration pass the undelivered rows of lowest
\* id, up to the 500 of the refill query, have their ids in the dedup queue
\* (all of them when at most 500 rows are undelivered), whether they were
\* never enqueued or were dequeued and not marked.
C16_FirstPendingAfterPass ==
    [][(RefillTimer \/ CrashRestart)
          => /\ FirstUnsentQueued(inbound', queue')
             /\ Len(UnsentIds(inbound')) <= RefillLimit
                   => AllUnsentQueued(inbound', queue')]_vars

\* C16 witness: the store holds one undelivered row more than the refill
\* query returns; the worker had dequeued row 1 and was killed mid-delivery;
\* after the startup pass row 1 is pending again and the last row is not
C16_Witness ==
    /\ crashes = 1
    /\ Len(UnsentIds(inbound)) = RefillLimit + 1
    /\ netLog.calls[1] = 1
    /\ inbound[1].xmtp_sent_at = Null
    /\ 1 \in queue.set
    /\ Len(queue.items) = RefillLimit
    /\ UnsentIds(inbound)[RefillLimit + 1] \notin queue.set

\* the row with this id is stored / is stored and marked delivered
Stored(id) == hasInboundEmail(inbound, id)
Delivered(id) == Stored(id) /\ inbound[id].xmtp_sent_at # Null

\* C17: with the worker loop and the refill timer scheduled fairly and sends
\* to the messaging network failing only finitely often, every row inserted
\* into the store is eventually marked delivered: a failed delivery is
\* retried, no stored row is dropped.
C17_EventuallyDelivered ==
    \A id \in InboundIds : Stored(id) ~> Delivered(id)

\* C17 witness: row 1 is marked delivered after a send of it had thrown and
\* the process had died once
C17_Witness ==
    /\ Delivered(1)
    /\ netLog.failed[1] = 1
    /\ crashes = 1

\* a step that sets or changes the xmtp_sent_at of row id
MarksRow(id) ==
    /\ Stored(id)
    /\ inbound'[id].xmtp_sent_at # inbound[id].xmtp_sent_at

\* C18: in every reachable state a row has a non-null xmtp_sent_at only if
\* a send of that row to the messaging network returned success earlier;
\* the mark is applied only by the worker, to the row it is delivering, once
\* the network has accepted that send in the current run, never after a
\* send that threw or before a send was attempted.
C18_MarkedState ==
    \A id \in InboundIds : Delivered(id) => netLog.ok[id] >= 1

C18_MarkStep ==
    \A id \in InboundIds :
        MarksRow(id) => /\ worker.pc = "accepted"
                        /\ worker.id = id
                        /\ netLog.okRun[id] >= 1
                        /\ inbound'[id].xmtp_sent_at # Null

C18_MarkedOnlyAfterSuccess == [](C18_MarkedState) /\ [][C18_MarkStep]_vars

\* C18 witness: a send of row 1 threw, the row stayed unmarked, the retry was
\* accepted and the row is marked
C18_Witness ==
    /\ Delivered(1)
    /\ netLog.failed[1] = 1
    /\ netLog.ok[1] = 1
    /\ netLog.calls[1] = 2
    /\ crashes = 0

\* C19: once a row's xmtp_sent_at is non-null the row is terminal: no step
\* of the worker, of a rehydration pass or of the webhook path changes any
\* of its fields (xmtp_sent_at keeps its first value), and no step removes a
\* row or changes the id of one.
C19_Step ==
    /\ Len(inbound') >= Len(inbound)
    /\ \A id \in 1..Len(inbound) :
          /\ inbound'[id].id = inbound[id].id
          /\ Delivered(id) => inbound'[id] = inbound[id]

C19_DeliveredIsTerminal == [][C19_Step]_vars

\* C19 witness: row 1 was marked at time 1; since then time has passed, the
\* webhook has received the same mail again, the process has been restarted
\* and its worker has emptied the queue: the row still carries its first mark
C19_Witness ==
    /\ Delivered(1)
    /\ inbound[1].xmtp_sent_at = IsoString(1)
    /\ clock = 2
    /\ inbound[1].dedupe_key \in netLog.duplicates
    /\ crashes = 1
    /\ netLog.okRun[1] = 0
    /\ queue.items = <<>>
    /\ worker = WorkerIdle

(* ===================== properties: the dedup queue ====================== *)

\* s is a prefix of t
IsPrefix(s, t) == Len(s) <= Len(t) /\ SubSeq(t, 1, Len(s)) = s

\* the items of q with the first one taken away, when there is one
AfterDequeue(q) == IF q.items = <<>> THEN <<>> ELSE Tail(q.items)

\* C20: the dedup queue never holds the same id twice, and its membership
\* set is exactly the ids it holds; enqueue of an id that is pending leaves
\* the queue as it is, so does a rehydration pass for every id that is
\* pending (the webhook path's enqueue followed by a pass yields one entry);
\* an id that is not pending goes to the back; the worker is handed the id
\* at the front, and while the process lives no step reorders or drops the
\* other pending ids.
C20_QueueState ==
    /\ \A i, j \in 1..Len(queue.items) : queue.items[i] = queue.items[j] => i = j
    /\ queue.set = {queue.items[i] : i \in 1..Len(queue.items)}
    /\ \A id \in InboundIds :
          IF id \in queue.set
          THEN enqueue(queue, id) = queue
          ELSE enqueue(queue, id).items = Append(queue.items, id)
    /\ IsPrefix(queue.items, refillInboundQueue(queue, inbound).items)

C20_QueueStep ==
    /\ crashes' = crashes
          => \/ IsPrefix(queue.items, queue'.items)
             \/ /\ IsPrefix(AfterDequeue(queue), queue'.items)
                /\ worker.pc = "idle"
                /\ worker'.pc = "conversation" => worker'.id = Head(queue.items)
    /\ (worker.pc = "idle" /\ worker'.pc = "conversation")
          => /\ queue.items # <<>>
             /\ worker'.id = Head(queue.items)
             /\ queue'.items = Tail(queue.items)

C20_NoDuplicateFifo == [](C20_QueueState) /\ [][C20_QueueStep]_vars

\* C20 witness: row 1 was enqueued first and dequeued, its send threw, row 2
\* had been enqueued meanwhile, and the catch block put row 1 behind it; the
\* refill timer has nothing to add
C20_Witness ==
    /\ queue.items = <<2, 1>>
    /\ netLog.failed[1] = 1
    /\ netLog.calls[2] = 0
    /\ worker.pc = "backoff"
    /\ refillInboundQueue(queue, inbound) = queue

(* ======================= properties: the webhook ======================== *)

\* the request carries the HMAC of its timestamp and token under the
\* configured signing key
SignedByMailgun(w) ==
    Fields(w).signature = Hmac(mailgunWebhookSigningKey, Fields(w).timestamp \o Fields(w).token)

\* the request is addressed to the configured inbound address
ForInboundAddress(w) ==
    ToLowerCase(extractEmailAddress(Fields(w).recipient)) = ToLowerCase(inboundEmailTo)

\* row is the row the insert makes of request w (received_at aside)
RowOfRequest(row, w) ==
    /\ row.mailgun_message_id = normalizeMailgunInbound(Fields(w)).mailgunMessageId
    /\ row.message_id = normalizeMailgunInbound(Fields(w)).messageId
    /\ row.from = normalizeMailgunInbound(Fields(w)).from
    /\ row.to = normalizeMailgunInbound(Fields(w)).to
    /\ row.subject = normalizeMailgunInbound(Fields(w)).subject
    /\ row.text = normalizeMailgunInbound(Fields(w)).text

\* C21: a row is inserted and its id enqueued only for a webhook request
\* whose signature is valid and whose recipient is the configured inbound
\* address; a request with a missing or invalid signature is answered 403,
\* a signed request for another recipient is answered 200 "ignored", and
\* handling either leaves the store and the queue as they were.
C21_GateState ==
    /\ \A w \in WebhookIds :
          /\ ~SignedByMailgun(w)
                => WebhookResponse(w) = [status |-> 403, body |-> "invalid_signature"]
          /\ (SignedByMailgun(w) /\ ~ForInboundAddress(w))
                => WebhookResponse(w) = [status |-> 200, body |-> "ignored"]
    /\ \A id \in 1..Len(inbound) :
          \E w \in WebhookIds :
              SignedByMailgun(w) /\ ForInboundAddress(w) /\ RowOfRequest(inbound[id], w)

C21_GateStep ==
    /\ (inbound' # inbound \/ queue' # queue)
          => \A w \in WebhookIds :
                ~(SignedByMailgun(w) /\ ForInboundAddress(w)) => ~Webhook(w)
    /\ Len(inbound') > Len(inbound)
          => \E w \in WebhookIds :
                /\ SignedByMailgun(w) /\ ForInboundAddress(w)
                /\ Webhook(w)
                /\ Len(inbound') = Len(inbound) + 1
                /\ RowOfRequest(inbound'[Len(inbound')], w)
                /\ Len(inbound') \in queue'.set

C22_FromIsConfigured ==
    /\ \A k \in 1..Len(mailCalls) : mailCalls[k].from = mailgunFrom
    /\ \A j, k \in 1..Len(mailCalls) : mailCalls[j].from = mailCalls[k].from

\* C22 witness: the same sender had two emails sent, by payloads that differ
\* (another recipient, and a replyTo address in one of them)
C22_Witness ==
    /\ Len(mailCalls) = 2
    /\ mailCalls[1].sender = mailCalls[2].sender
    /\ {mailCalls[1].msg, mailCalls[2].msg} = {"m1", "m10"}
    /\ mailCalls[1].to # mailCalls[2].to

(* ============== properties: the outbound_request interface =============== *)

\* the value a field holds after an update that distinguishes an omitted
\* argument (the field is kept) from an explicit null (the field is cleared)
AfterPartialUpdate(stored, supplied) == IF supplied = Undefined THEN stored ELSE supplied

\* C23: updateOutboundRequestStatus is a partial update: an omitted
\* mailgunId or error argument leaves the stored field as it is, an argument
\* given as explicit null sets the stored field to null.
C23_PartialUpdate ==
    [][\A m \in DbMsgIds : \A update \in DbUpdates :
          (DbUpdate(m, update) /\ m \in DOMAIN outbound)
              => /\ outbound'[m].status = update.status
                 /\ outbound'[m].mailgun_id
                       = AfterPartialUpdate(outbound[m].mailgun_id, update.mailgunId)
                 /\ outbound'[m].error
                       = AfterPartialUpdate(outbound[m].error, update.error)]_vars

\* C24: in every reachable state a row whose status is received or sending
\* has mailgun_id and error null; a row is created with both null, and a
\* step writes either field only when it takes the row into sent or failed.
C24_PendingState ==
    \A m \in DOMAIN outbound :
        outbound[m].status \in {"received", "sending"}
            => (outbound[m].mailgun_id = Null /\ outbound[m].error = Null)

C24_WriteStep ==
    \A m \in DOMAIN outbound' :
        IF m \in DOMAIN outbound
        THEN <<outbound'[m].mailgun_id, outbound'[m].error>>
                 # <<outbound[m].mailgun_id, outbound[m].error>>
               => /\ outbound'[m].status \in {"sent", "failed"}
                  /\ outbound'[m].status # outbound[m].status
        ELSE /\ outbound'[m].status = "received"
             /\ outbound'[m].mailgun_id = Null
             /\ outbound'[m].error = Null

C24_ResultOnlyOnTerminal == [](C24_PendingState) /\ [][C24_WriteStep]_vars

\* C24 witness: the row of m1 is sent and carries the Mailgun id, the row of
\* m10 is sending with its email-send call in flight and carries nothing
C24_Witness ==
    /\ DOMAIN outbound = {"m1", "m10"}
    /\ outbound["m1"].status = "sent"
    /\ outbound["m1"].mailgun_id = "<mg-1>"
    /\ outbound["m10"].status = "sending"
    /\ outbound["m10"].mailgun_id = Null
    /\ outbound["m10"].error = Null
    /\ handler.pc = "mailgun"

(* ================ properties: the inbound dedupe key ==================== *)

\* the five fields of a record and of a stored row
InputTuple(input) == <<input.from, input.to, input.subject, input.text, input.receivedAt>>
RowTuple(row) == <<row.from, row.to, row.subject, row.text, row.received_at>>

\* C25: for records with no transport message id and no Message-Id the
\* dedupe key is a function of (from, to, subject, text, receivedAt) and an
\* injective one: a record whose five fields equal those of a stored row has
\* that row's key, and a record that differs from every stored row in one of
\* the five fields has a key no stored row has.
C25_KeyInjective ==
    \A input \in KeyInputs :
        /\ \A id \in 1..Len(inbound) :
              RowTuple(inbound[id]) = InputTuple(input)
                  => inbound[id].dedupe_key = computeInboundDedupeKey(input)
        /\ (\A id \in 1..Len(inbound) : RowTuple(inbound[id]) # InputTuple(input))
              => computeInboundDedupeKey(input) \notin DedupeKeys(inbound)

(* ========================= properties: startup ========================== *)

\* C26: when resolving the fixed recipient or an allowlist identity fails at
\* startup, main() aborts before anything is seeded: that run writes no
\* allowlist entry (a first run leaves the table empty, a later run leaves
\* it as it was), and the delivery worker, the HTTP listener and the
\* outbound loop are not started: until the process is started again no
\* step touches the store, the queue or the histories.
C26_DownState ==
    ProcessDown
        => /\ worker = WorkerDown
           /\ queue = EmptyQueue
           /\ ~cachedConv
           /\ crashes = 0 => allowlist = {}

C26_DownStep ==
    /\ ProcessDown' => allowlist' = allowlist
    /\ ProcessDown => \/ crashes' = crashes + 1
                      \/ UNCHANGED <<allowlist, outbound, invocations, mailCalls,
                                     inbound, queue, worker, netLog, consent>>

C26_FailFastStartup == [](C26_DownState) /\ [][C26_DownStep]_vars

\* C26 witness: the first run of main() failed to resolve an identity; the
\* table is empty and nothing runs, while a webhook request, a message from
\* the stream and the refill timer have nowhere to arrive
C26_Witness ==
    /\ ProcessDown
    /\ crashes = 0
    /\ allowlist = {}
    /\ \A w \in WebhookIds : ~ENABLED Webhook(w)
    /\ \A m \in MsgIds : ~ENABLED StreamDeliver(m)
    /\ ~ENABLED RefillTimer
    /\ ~ENABLED WorkerDequeue

(* ============= properties: the scheduled Cloudflare Worker ============== *)

\* C27: over any sequence of runRelay runs that share the state under
\* relay_state_v1, a message that one run has relayed to Mailgun is not
\* relayed again by a later run: Mailgun accepts at most one email per
\* message.
C27_RelayedOnce ==
    \A x \in CfMsgIds : cf.relayed[x] <= 1

(* =================== properties: the delivery worker ==================== *)

\* the row of id is missing or already marked delivered
RowStale(id) == ~Stored(id) \/ Delivered(id)

\* the idle worker takes id from the front of the queue
Dequeues(id) ==
    /\ worker.pc = "idle"
    /\ queue.items # <<>>
    /\ Head(queue.items) = id
    /\ queue'.items = Tail(queue.items)
    /\ crashes' = crashes

\* C28: when the worker dequeues an id whose row is missing or already
\* marked delivered it discards the id: the step makes no send call, marks
\* nothing, does not put the id back, and leaves the worker ready for the
\* next dequeue with no pause.
C28_DiscardStep ==
    \A id \in InboundIds :
        (Dequeues(id) /\ RowStale(id))
            => /\ worker' = WorkerIdle
               /\ netLog' = netLog
               /\ inbound' = inbound
               /\ cachedConv' = cachedConv
               /\ queue' = dequeue(queue)
               /\ id \notin queue'.set

C28_StaleIdDiscarded == [][C28_DiscardStep]_vars

\* C28 witness: row 1 was re-enqueued by the refill timer while its send
\* was in flight and has been marked since; its stale id is at the front
\* of the queue, ahead of row 2, and the idle worker takes it next
C28_Witness ==
    /\ Delivered(1)
    /\ netLog.calls[1] = 1
    /\ netLog.failed[1] = 0
    /\ crashes = 0
    /\ queue.items = <<1, 2>>
    /\ worker = WorkerIdle
    /\ ENABLED WorkerDequeue

\* the delivery attempt the worker is making for id fails in this step
AttemptFails(id) ==
    /\ worker.pc \in {"conversation", "sending"}
    /\ worker.id = id
    /\ netLog'.failed[id] = netLog.failed[id] + 1

\* C29: when a delivery attempt fails (getDeanConversation or the send
\* throws) the row's xmtp_sent_at stays null, the id is pending in the queue
\* again at once, and the worker pauses: it stays in its pause, with the id
\* pending and the row unmarked, until the pause ends, and dequeues nothing
\* meanwhile.
C29_PauseState ==
    worker.pc = "backoff"
        => /\ worker.id \in queue.set
           /\ Stored(worker.id)
           /\ inbound[worker.id].xmtp_sent_at = Null

C29_FailureStep ==
    /\ \A id \in InboundIds :
          AttemptFails(id)
              => /\ inbound' = inbound
                 /\ inbound[id].xmtp_sent_at = Null
                 /\ queue' = enqueue(queue, id)
                 /\ id \in queue'.set
                 /\ worker' = [pc |-> "backoff", id |-> id]
    /\ (worker.pc = "backoff" /\ crashes' = crashes)
          => /\ Len(queue'.items) >= Len(queue.items)
             /\ worker'.pc \in {"backoff", "idle"}
             /\ netLog'.calls = netLog.calls

C29_FailedAttemptRequeued == [](C29_PauseState) /\ [][C29_FailureStep]_vars

\* C29 witness: getDeanConversation threw for row 1 before any send call
\* was made; the row is unmarked, its id is pending again and the worker is
\* in its pause
C29_Witness ==
    /\ worker = [pc |-> "backoff", id |-> 1]
    /\ netLog.failed[1] = 1
    /\ netLog.calls[1] = 0
    /\ ~cachedConv
    /\ queue.items = <<1>>
    /\ inbound[1].xmtp_sent_at = Null

(* ================ properties: the order of the handler's tests ========== *)

\* a result reply other than not_allowlisted: invalid_payload, a recorded
\* result, already_processing, or the result of a send
ResultBeyondGate(reply) ==
    reply.type = "email.send.result.v1" /\ reply.error # "not_allowlisted"

\* C30: the allowlist test comes before schema validation and before the
\* idempotency lookup: an email.send.v1 message of a sender that is not in
\* the allowlist gets not_allowlisted and nothing else, whether its payload
\* is valid or not and whether a row for its message id exists or not (the
\* lookup is not made, the row is left as it is, no email is sent); every
\* other result reply goes to a sender that is in the allowlist.
C30_GateState ==
    \A i \in 1..Len(invocations) :
        /\ (IsSendV1(invocations[i].msg) /\ ~SenderListed(invocations[i].msg))
              => /\ ~invocations[i].sent
                 /\ invocations[i].found = "n/a"
                 /\ invocations[i].replies \in
                       {<<>>, <<ResultMessage(FALSE, Null, "not_allowlisted")>>}
                 /\ invocations[i].ending \in {"returned", "threw"}
                       => invocations[i].replies # <<>>
        /\ \A k \in 1..Len(invocations[i].replies) :
              ResultBeyondGate(invocations[i].replies[k])
                  => SenderListed(invocations[i].msg)

C30_GateStep ==
    (handler.pc # "idle" /\ IsSendV1(handler.msg) /\ ~SenderListed(handler.msg)
        /\ crashes' = crashes)
        => UNCHANGED <<outbound, mailCalls, statusLog>>

SelfOrNonText(m) ==
    \/ ToLowerCase(Message(m).senderInboxId) = ToLowerCase(botInboxId)
    \/ Message(m).content = ContentAttachment

\* C31 (state part): an invocation for such a message ended at once with no
\* reply, no lookup and no email-send call; the message has no row, no status
\* history and no email-send call, and the handler is never found working
\* on one
C31_IgnoredState ==
    /\ handler.pc # "idle" => ~SelfOrNonText(handler.msg)
    /\ \A i \in 1..Len(invocations) :
          SelfOrNonText(invocations[i].msg)
              => /\ invocations[i].ending = "dropped"
                 /\ invocations[i].replies = <<>>
                 /\ invocations[i].delivered = 0
                 /\ invocations[i].found = "n/a"
                 /\ ~invocations[i].sent
                 /\ invocations[i].msg \notin DOMAIN outbound
                 /\ statusLog[invocations[i].msg] = <<>>
                 /\ MailCallsFor(invocations[i].msg) = 0

\* C31 (step part): the step that hands such a message to the handler
\* changes nothing but the history of invocations
C31_IgnoredStep ==
    (Len(invocations') = Len(invocations) + 1
        /\ SelfOrNonText(invocations'[Len(invocations')].msg))
        => /\ handler' = handler
           /\ UNCHANGED <<allowlist, outbound, mailCalls, statusLog, consent, crashes, cf,
                          inVars>>

\* C31: a message whose sender identity equals the bot's own identity
\* (compared case-insensitively), or whose content is not text, has no effect
\* at all: no reply is sent, no store row is read, modified or created, and no
\* email-send call is made, so the bot's own replies never trigger replies.
C31_IgnoredNoEffect == [](C31_IgnoredState) /\ [][C31_IgnoredStep]_vars

\* C31 witness: the stream delivered the bot's own email.send.v1 message
\* (inbox id in another case) and a non-text message of an allowlisted
\* sender; both were dropped and nothing else happened
C31_Witness ==
    /\ Len(invocations) = 2
    /\ {invocations[1].msg, invocations[2].msg} = {"m6", "m12"}
    /\ \A i \in 1..2 : invocations[i].ending = "dropped" /\ invocations[i].replies = <<>>
    /\ handler = HandlerIdle
    /\ outbound = <<>>
    /\ mailCalls = <<>>
    /\ consent = {}

(* ============ properties: rows orphaned by a dead process =============== *)

\* the invocation the handler is running created the row of m and has not
\* yet recorded the outcome of its send
OwnsRow(h, m) ==
    h.pc \in {"inserted", "marked", "mailgun", "accepted"} /\ h.msg = m

\* the row of m is in received or sending and no running invocation owns
\* it: the process that created it died before recording an outcome
Orphaned(m) ==
    /\ m \in DOMAIN outbound
    /\ outbound[m].status \in {"received", "sending"}
    /\ ~OwnsRow(handler, m)

\* C32: an OutboundRequest left in status sending (or received) by a process
\* that died mid-flight stays in that status forever: no startup step and no
\* handler invocation (the replay of its own message included) moves it to
\* sent or failed, writes to it, or makes an email-send call for it.
C32_OrphanStep ==
    \A m \in MsgIds :
        Orphaned(m)
            => /\ m \in DOMAIN outbound'
               /\ outbound'[m] = outbound[m]
               /\ statusLog'[m] = statusLog[m]
               /\ MailCallsFor(m)' = MailCallsFor(m)
               /\ ~OwnsRow(handler', m)

C32_StuckForever == [][C32_OrphanStep]_vars

\* C32 witness: the process died with the row of m1 in sending, after the
\* restart the stream delivered m1 again, the replay returned, and the row
\* is still in sending with the one email-send call of the dead process
C32_Witness ==
    /\ crashes = 1
    /\ Orphaned("m1")
    /\ outbound["m1"].status = "sending"
    /\ Len(invocations) = 2
    /\ invocations[1].msg = "m1" /\ invocations[1].ending = "killed"
    /\ invocations[2].msg = "m1" /\ invocations[2].ending = "returned"
    /\ invocations[2].found = "sending"
    /\ MailCallsFor("m1") = 1

(* ============ properties: the recorded outcome of a send ================ *)

\* sendEmailViaMailgun returned success for m: the write of status sent
\* (line 318) is the statement after its return
ReturnedSuccess(m) == "sent" \in Range(statusLog[m])

\* C33: the recorded outcome matches what happened to the email: if the
\* email-send collaborator returned success for message id m, then the row
\* for m is in status sent with error null and every result reply for m (the
\* original and any replay) has ok:true; so a row in status failed, or a
\* reply with ok:false, implies the email was not accepted.
C33_OutcomeMatches ==
    \A m \in MsgIds :
        ReturnedSuccess(m)
            => /\ m \in DOMAIN outbound
               /\ outbound[m].status = "sent"
               /\ outbound[m].error = Null
               /\ \A i \in 1..Len(invocations) :
                     invocations[i].msg = m
                         => \A k \in 1..Len(invocations[i].replies) :
                               invocations[i].replies[k].type = "email.send.result.v1"
                                   => invocations[i].replies[k].ok

(* ======== properties: re-enqueue of an id whose delivery is in flight ==== *)

\* the id of a row whose delivery is in flight is in the queue again: it
\* left the presence set at its dequeue and the refill put it back
RequeuedInFlight(id) ==
    /\ SendInFlight(id)
    /\ id \in queue.set
    /\ id \in Range(queue.items)

\* C34 (state part): in a run without process death, the messaging network
\* accepts each row at most once, every send call but one follows an attempt
\* that failed, and no send is in flight for a delivered row
C34_OnceState ==
    crashes = 0 =>
        \A id \in InboundIds :
            /\ netLog.ok[id] <= 1
            /\ netLog.calls[id] <= 1 + netLog.failed[id]
            /\ (hasInboundEmail(inbound, id) /\ inbound[id].xmtp_sent_at # Null)
                  => ~SendInFlight(id)

\* C34 (step part): the dequeue of a copy whose row is marked delivered
\* starts nothing: the worker stays idle and no send call is made
C34_CopyStep ==
    (crashes = 0 /\ crashes' = 0 /\ worker.pc = "idle" /\ queue.items # <<>>
        /\ queue'.items = Tail(queue.items)
        /\ hasInboundEmail(inbound, Head(queue.items))
        /\ inbound[Head(queue.items)].xmtp_sent_at # Null)
        => worker' = WorkerIdle /\ netLog' = netLog /\ inbound' = inbound

\* C34: in a crash-free execution with one worker loop, each InboundItem is
\* successfully sent to the messaging network at most once, even when its id
\* is re-enqueued while its delivery is in flight: the re-enqueued copy is
\* discarded by the re-fetch once the item is marked delivered.
C34_AtMostOnceInFlight == [](C34_OnceState) /\ [][C34_CopyStep]_vars

\* C34 witness: no process death; the network has accepted the send of row
\* 1, the row is not yet marked, and the refill timer has put id 1 back
\* into the queue
C34_Witness ==
    /\ crashes = 0
    /\ RequeuedInFlight(1)
    /\ worker.pc = "accepted"
    /\ netLog.ok[1] = 1
    /\ inbound[1].xmtp_sent_at = Null

(* =============== properties: the allowlist store only grows ============= *)

\* identities a caller may ask isAllowlisted about, in any letter case
Probes == {"0xALICE", "0xalice", " 0xalice ", "0xCarol", "0xCAROL", "0xcarol", "0xdean",
           "0xDEAN", "0xmallory", "0xbot"}

\* the lower-cased form of x is among the values some run seeded
WasSeeded(x) == \E v \in boot.seeded : ToLowerCase(Trim(v)) = ToLowerCase(Trim(x))

\* C35 (state part): isAllowlisted(x) is true exactly for the identities
\* whose lower-cased form was seeded by this run or an earlier one, whatever
\* the configuration of the running process is now
C35_SeededState ==
    \A x \in Probes : isAllowlisted(allowlist, x) <=> WasSeeded(x)

\* C35 (step part): no step removes an entry of allowlist_xmtp, and an
\* identity that is allowlisted stays allowlisted
C35_GrowStep ==
    /\ allowlist \subseteq allowlist'
    /\ \A x \in Probes : isAllowlisted(allowlist, x) => isAllowlisted(allowlist', x)

C36_LoopState ==
    /\ handler.pc # "down"
    /\ (handler.pc = "idle" /\ Len(invocations) < MaxInvocations)
          => \A m \in MsgIds : ENABLED StreamDeliver(m)
    /\ handler.pc = "resubscribe" => ENABLED Resubscribe

\* C36 (step part): a handler invocation that throws returns the loop to the
\* stream, and a pause after a stream failure ends with the loop on the
\* stream again
C36_LoopStep ==
    /\ (Len(invocations) > 0 /\ Len(invocations') = Len(invocations)
           /\ invocations[Cur].ending = "running" /\ invocations'[Cur].ending = "threw")
          => handler' = HandlerIdle
    /\ (handler.pc = "resubscribe" /\ handler' # handler) => handler' = HandlerIdle

\* C36: a handler invocation that throws (a store error or a failed reply
\* send) does not stop the outbound loop: every later message delivered by
\* the stream is still handled, and when the stream itself fails the loop
\* resubscribes after a pause instead of terminating.
C36_LoopSurvives == [](C36_LoopState) /\ [][C36_LoopStep]_vars

\* C36 witness: the first invocation threw, the next message of the stream
\* was handled and answered, and then the stream failed: the loop is in its
\* pause with the resubscription ahead
C36_Witness ==
    /\ crashes = 0
    /\ Len(invocations) = 2
    /\ invocations[1].ending = "threw"
    /\ invocations[2].ending = "returned"
    /\ invocations[2].delivered = 1
    /\ handler.pc = "resubscribe"
    /\ ENABLED Resubscribe

(* ======= properties: an undeliverable item does not starve the rest ====== *)

\* the worker has called conversation.send for row id
BeingSent(id) == worker.id = id /\ worker.pc = "sending"

\* C37: a permanently undeliverable InboundItem is retried forever (it is
\* never marked delivered and a send of it is attempted again and again) but
\* does not starve the others: a failed id is re-enqueued at the tail, so
\* every other stored item is eventually delivered, under fairness of the
\* worker loop.
C37_NoStarvation ==
    \A id \in InboundIds :
        /\ (Stored(id) /\ ~Undeliverable(inbound[id])) ~> Delivered(id)
        /\ (Stored(id) /\ Undeliverable(inbound[id])) ~> BeingSent(id)
        /\ []((Stored(id) /\ Undeliverable(inbound[id])) => ~Delivered(id))

\* C37 witness: the undeliverable item is row 1 and was stored first; its
\* send has thrown as often as the history counts, it is pending again, and
\* row 2, stored behind it, is marked delivered
C37_Witness ==
    /\ Len(inbound) = 2
    /\ Undeliverable(inbound[1])
    /\ netLog.failed[1] = LogCap
    /\ ~Delivered(1)
    /\ 1 \in queue.set
    /\ Delivered(2)
    /\ netLog.ok[2] = 1

(* ============ properties: the cursor of the scheduled relay ============= *)

\* the attempts made for message x: relayed, or answered with an error
CfAttempts(x) == cf.relayed[x] + cf.failed[x]

\* C38 (step part): the persisted lastProcessedTimeMs never decreases when a
\* run saves its state, and the iteration in which the parse or the Mailgun
\* send of x throws advances the run's cursor to x as a relayed one does
C38_CursorStep ==
    /\ loadState(cf'.kv).lastProcessedTimeMs >= loadState(cf.kv).lastProcessedTimeMs
    /\ \A x \in CfMsgIds :
          cf'.failed[x] = cf.failed[x] + 1
              => /\ cf'.run.state.lastProcessedTimeMs >= CfSent(x)
                 /\ cf'.run.state.lastProcessedTimeMs >= cf.run.state.lastProcessedTimeMs
                 /\ CfSkipped(cf'.run.state, x)

\* C38 (state part): a message whose parse or send threw got its error
\* reply once and no later run attempted it again
C38_FailedOnceState ==
    \A x \in CfMsgIds : cf.failed[x] >= 1 => CfAttempts(x) = 1

\* C38: in the scheduled Cloudflare Worker relay, the persisted cursor
\* lastProcessedTimeMs never decreases from one completed run to the next,
\* and a message whose parse or Mailgun send throws still advances the
\* cursor: it gets an error reply and is never re-attempted by a later run.
C38_CursorAdvances == [](C38_FailedOnceState) /\ [][C38_CursorStep]_vars


====
